---- MODULE Spec2Model ----
(***************************************************************************)
(* Zebra Finance: the transaction synchronisation core.                    *)
(*                                                                         *)
(* SyncService.syncTransactions (services/syncService.ts) is modelled as   *)
(* one process per caller, cut at its await points, over the SQLite store  *)
(* of DatabaseService (services/database.ts) and the last-sync entry of    *)
(* secureStorage (utils/secureStorage.ts).  Beside it stand the reads of   *)
(* the store, the token cache with InvestecAuthService                     *)
(* (services/investecAuth.ts), the API client InvestecApiService           *)
(* (services/investecApi.ts), the sync together with the fetch it awaits,  *)
(* the validation of fetched records on its own, the pay period of         *)
(* CategoriesScreen, DatabaseService.init step by step, the context of     *)
(* OpenAIService (services/openaiService.ts) and the nudges of             *)
(* NudgeService (services/nudgeService.ts); each has its variables and its *)
(* specification, the other variables staying at their initial values.     *)
(***************************************************************************)
EXTENDS Integers, Sequences, FiniteSets, TLC

(***************************************************************************)
(* Bounds of the model.                                                    *)
(***************************************************************************)
\* longest list of raw records one fetch returns
MaxFetch == 2
\* largest AUTOINCREMENT value the transactions table hands out
MaxId == 4
\* largest value of the clock Date.now()
MaxNow == 2
\* largest category id a user picks in the category dialogs
MaxCategoryArg == 1
\* the seconds the clock Date.now() of the token cache runs for
MaxSeconds == 2
\* the access tokens the bank issues
MaxTokens == 2
\* the accounts the bank lists
MaxAccounts == 2
\* largest totalPages a transactions response reports
MaxPages == 2
\* longest list of raw records the validation is run on
MaxRecords == 2
\* the years, from 2024 on, the pay period is computed in
MaxYears == 1
\* default category inserts one init() sees rejected
MaxRejects == 1
\* the months the store holds transactions of
MaxMonths == 7
\* the rows in the store the nudges are generated from
MaxStored == 2
\* the categories a user creates
MaxCreated == 1

(***************************************************************************)
(* Values.                                                                 *)
(***************************************************************************)
\* A field of a raw JSON record is <<>> (undefined or null) or <<v>>.
Absent == <<>>
Some(v) == <<v>>

\* SQL NULL in transactions.category_id (AUTOINCREMENT ids start at 1)
NullCategory == 0

\* no entry under a secure-store key (timestamps are positive)
NoTimestamp == 0

\* the callers of syncRecentTransactions: HomeScreen.handleSync and
\* LoginScreen's sync after login
SyncCalls == {"home", "login"}

\* the callers of database.init(): initializeApp at startup (App.tsx) and
\* syncTransactions (syncService.ts 44)
InitCallers == {"app", "sync"}

\* JavaScript truthiness of an optional string / number field
TruthyStr(f) == f # Absent /\ f[1] # ""
TruthyNum(f) == f # Absent /\ f[1] # 0

\* JavaScript `f || d`
OrElseStr(f, d) == IF TruthyStr(f) THEN f[1] ELSE d
OrElseNum(f, d) == IF TruthyNum(f) THEN f[1] ELSE d

\* the raw records the remote may return: two descriptions, each posted,
\* the first also pending, and a record without description (invalid)
RawRecords ==
  { r \in
      { [accountId |-> Some("acc1"), type |-> Some("DEBIT"),
         transactionType |-> Some("CardPurchases"), status |-> s,
         description |-> d, cardNumber |-> Absent, postedOrder |-> Absent,
         postingDate |-> Some("2025-01-02"), valueDate |-> Absent,
         actionDate |-> Absent, transactionDate |-> Some("2025-01-01"),
         amount |-> Some(25), runningBalance |-> Absent]
        : s \in {Some("POSTED"), Some("PENDING")},
          d \in {Some("coffee"), Some("rent"), Absent} }
    : r.status = Some("PENDING") => r.description = Some("coffee") }

\* the lists a fetch may return
FetchLists == UNION { [1..n -> RawRecords] : n \in 0..MaxFetch }

(***************************************************************************)
(* Normalizer / validator (syncService.ts 60-100).                         *)
(***************************************************************************)
\* the required-field check with `!t.amount` for the amount
MissingFieldsFalsyAmount(t) ==
  LET chk(f, name) == IF f THEN <<name>> ELSE <<>>
  IN  chk(~TruthyStr(t.accountId), "accountId")
      \o chk(~TruthyStr(t.type), "type")
      \o chk(~TruthyStr(t.status), "status")
      \o chk(~TruthyStr(t.description), "description")
      \o chk(~TruthyStr(t.transactionDate), "transactionDate")
      \o chk(~TruthyNum(t.amount), "amount")

\* missingFields of record t (62-69)
MissingFields(t) ==
  LET chk(f, name) == IF f THEN <<name>> ELSE <<>>
  IN  chk(~TruthyStr(t.accountId), "accountId")
      \o chk(~TruthyStr(t.type), "type")
      \o chk(~TruthyStr(t.status), "status")
      \o chk(~TruthyStr(t.description), "description")
      \o chk(~TruthyStr(t.transactionDate), "transactionDate")
      \o chk(t.amount = Absent, "amount")

Sanitize(t) ==
  [accountId |-> t.accountId[1],
   type |-> t.type[1],
   transactionType |-> OrElseStr(t.transactionType, "Other"),
   status |-> t.status[1],
   description |-> t.description[1],
   cardNumber |-> OrElseStr(t.cardNumber, ""),
   postedOrder |-> OrElseNum(t.postedOrder, 0),
   postingDate |-> OrElseStr(t.postingDate, ""),
   valueDate |-> OrElseStr(t.valueDate, ""),
   actionDate |-> OrElseStr(t.actionDate, ""),
   transactionDate |-> t.transactionDate[1],
   amount |-> t.amount[1],
   runningBalance |-> OrElseNum(t.runningBalance, 0),
   categoryId |-> NullCategory]

\* validTransactions after the forEach over the first n fetched records
RECURSIVE ValidTransactions(_, _)
ValidTransactions(list, n) ==
  IF n = 0 THEN <<>>
  ELSE IF MissingFields(list[n]) = <<>>
       THEN Append(ValidTransactions(list, n - 1), Sanitize(list[n]))
       ELSE ValidTransactions(list, n - 1)

\* invalidTransactions after the forEach over the first n fetched records;
\* the forEach index is 0-based
RECURSIVE InvalidTransactions(_, _)
InvalidTransactions(list, n) ==
  IF n = 0 THEN <<>>
  ELSE IF MissingFields(list[n]) # <<>>
       THEN Append(InvalidTransactions(list, n - 1),
                   [index |-> n - 1, missingFields |-> MissingFields(list[n])])
       ELSE InvalidTransactions(list, n - 1)

(***************************************************************************)
(* Persistent store (database.ts).                                         *)
(***************************************************************************)
\* the icons are emoji in the source; the model names them
DefaultCategories ==
  << [name |-> "Groceries", color |-> "#4CAF50", icon |-> Some("cart")],
     [name |-> "Dining", color |-> "#FF9800", icon |-> Some("plate")],
     [name |-> "Transportation", color |-> "#2196F3", icon |-> Some("car")],
     [name |-> "Entertainment", color |-> "#E91E63", icon |-> Some("film")],
     [name |-> "Shopping", color |-> "#9C27B0", icon |-> Some("bags")],
     [name |-> "Bills", color |-> "#F44336", icon |-> Some("page")],
     [name |-> "Healthcare", color |-> "#00BCD4", icon |-> Some("hospital")],
     [name |-> "Income", color |-> "#8BC34A", icon |-> Some("money")],
     [name |-> "Other", color |-> "#607D8B", icon |-> Some("pin")] >>

\* INSERT OR IGNORE of the first n default categories into cats, the table's
\* AUTOINCREMENT sequence standing at seq; yields [cats, seq]
RECURSIVE InsertDefaultCategories(_, _, _)
InsertDefaultCategories(cats, seq, n) ==
  IF n = 0 THEN [cats |-> cats, seq |-> seq]
  ELSE LET before == InsertDefaultCategories(cats, seq, n - 1)
           d == DefaultCategories[n]
       IN  IF \E c \in before.cats : c.name = d.name
           THEN before
           ELSE [cats |-> before.cats \cup
                            {[id |-> before.seq + 1, name |-> d.name,
                              color |-> d.color, icon |-> d.icon]},
                 seq |-> before.seq + 1]

\* UNIQUE(account_id, transaction_date, amount, description)
SameKey(a, b) ==
  /\ a.accountId = b.accountId
  /\ a.transactionDate = b.transactionDate
  /\ a.amount = b.amount
  /\ a.description = b.description

\* the row INSERT stores for transaction t under the id the table hands out
Row(t, id) == [id |-> id] @@ t

\* INSERT without conflict clause that adds the row beside its duplicate
InsertTransactionDuplicating(rows, t, id) == rows \cup {Row(t, id)}

\* INSERT OR IGNORE: a row conflicting on the UNIQUE key keeps the old row
InsertTransactionIgnoring(rows, t, id) ==
  IF \E r \in rows : SameKey(r, t) THEN rows ELSE rows \cup {Row(t, id)}

\* INSERT OR REPLACE: the rows conflicting on the UNIQUE key are deleted and
\* the new row is inserted under the next AUTOINCREMENT id
InsertTransaction(rows, t, id) ==
  {r \in rows : ~SameKey(r, t)} \cup {Row(t, id)}

\* SELECT ... WHERE t.id = ? (null when no row has the id)
GetTransactionById(rows, id) == {r \in rows : r.id = id}

\* SELECT COUNT(*) FROM transactions
GetTotalTransactions(rows) == Cardinality(rows)

(***************************************************************************)
(* Sync outcomes (syncService.ts, SyncResult).                             *)
(***************************************************************************)
NoError == ""

Rejected ==
  [success |-> FALSE, newTransactions |-> 0, totalTransactions |-> 0,
   lastSyncTime |-> NoTimestamp, error |-> "Sync already in progress"]

NoValidError(n) ==
  "No valid transactions found. " \o ToString(n)
    \o " transactions had missing required fields."

NoValid(n) ==
  [success |-> FALSE, newTransactions |-> 0, totalTransactions |-> 0,
   lastSyncTime |-> NoTimestamp, error |-> NoValidError(n)]

Succeeded(new, total, time) ==
  [success |-> TRUE, newTransactions |-> new, totalTransactions |-> total,
   lastSyncTime |-> time, error |-> NoError]

\* an Error object with message m
Error(m) == [isError |-> TRUE, message |-> m]

\* the Error investecAuth.getAccessToken throws without credentials
NotAuthenticated == Error("No credentials stored. Please login first.")

\* a catch block that takes every thrown value for a non-Error
CatchOutcomeUnknown(error) ==
  [success |-> FALSE, newTransactions |-> 0, totalTransactions |-> 0,
   lastSyncTime |-> NoTimestamp, error |-> "Unknown error occurred"]

\* the outcome the catch block builds from the thrown value
CatchOutcome(error) ==
  [success |-> FALSE, newTransactions |-> 0, totalTransactions |-> 0,
   lastSyncTime |-> NoTimestamp,
   error |-> IF error.isError THEN error.message
             ELSE "Unknown error occurred"]

(***************************************************************************)
(* State.                                                                  *)
(***************************************************************************)
VARIABLES
  isSyncing,     \* SyncService.isSyncing
  calls,         \* per caller: position and locals of its syncTransactions
  returned,      \* how the syncTransactions call that ended last ended
  dbOpen,        \* DatabaseService.db is set
  transactions,  \* rows of table transactions
  categories,    \* rows of table categories
  seqTx,         \* AUTOINCREMENT sequence of transactions
  seqCat,        \* AUTOINCREMENT sequence of categories
  lastSyncTime,  \* secure-store entry last_sync_time
  now,           \* the last value read from Date.now()
  deleting,      \* deleteCategory between its two statements: the id, or 0
  remote,        \* the records the bank holds, where a run fixes them
  history        \* history: the successful runs in a row (up to 2) and the
                 \* store's row count after the last of them

VARIABLES
  seen,          \* what the read of the store that ran last returned
  secure,        \* secure-store entries credentials, token and expiry
  clock,         \* Date.now() in milliseconds, from the start of the model
  currentToken,  \* InvestecAuthService.currentToken
  issued,        \* the number of tokens the bank has issued
  expiryTime,    \* history: the expiryTime saveAccessToken computed last
  tokenCall,     \* investecAuth.getAccessToken: position and locals
  tokenResult,   \* how the getAccessToken call that ended last ended
  loginCall,     \* investecAuth.login: position and locals
  logoutCall,    \* investecAuth.logout: position
  loggedOut,     \* history: logout has completed and no login ran since
  ownExpiry,     \* history: for each token saved, the expiryTime computed
                 \* by the saveAccessToken that saved it
  api,           \* investecApi.getAllTransactions: position and locals
  apiResult,     \* how the getAllTransactions call that ended last ended
  validated,     \* the valid and invalid records of the validation run last
  pay            \* pay day, today and the salary date computed from them

VARIABLES
  schema,        \* the tables and indexes of the database file exist
  opened,        \* history: the databases opened since the app started
  initCalls,     \* per caller of database.init(): position and locals
  operated,      \* history: the store operation issued last after an init()
  context,       \* what getFinancialContext computed last
  nudges         \* what generateNudges computed last

\* the variables of the sync run and the store
syncVars == <<isSyncing, calls, returned, dbOpen, transactions, categories,
              seqTx, seqCat, lastSyncTime, now, deleting, remote, history>>

\* the variables of the authentication service and the secure store
authVars == <<secure, clock, currentToken, issued, expiryTime, tokenCall,
              tokenResult, loginCall, logoutCall, loggedOut, ownExpiry>>

\* the variables of the API client
apiVars == <<api, apiResult>>

\* the variables of the callers of database.init()
initVars == <<opened, initCalls, operated>>

\* the variables of the insight context and the nudges
insightVars == <<context, nudges>>

\* the variables outside the sync run and the store, but for schema
besideSchema == <<seen, authVars, apiVars, validated, pay, initVars,
                  insightVars>>

\* the variables outside the sync run and the store
others == <<besideSchema, schema>>

\* what a read of the store, the write of a token, a step of the
\* authentication service, a step of the API client, the validation and the
\* pay period leave unchanged
besideReads == <<syncVars, authVars, apiVars, validated, pay, schema,
                 initVars, insightVars>>
besideTokens == <<syncVars, seen, apiVars, validated, pay, schema, initVars,
                  insightVars>>
besideAuth == <<besideTokens, ownExpiry>>
besideApi == <<syncVars, seen, secure, clock, currentToken, issued,
               expiryTime, tokenResult, loginCall, logoutCall, loggedOut,
               ownExpiry, validated, pay, schema, initVars, insightVars>>
besideValidated == <<isSyncing, calls, returned, dbOpen, transactions,
                     categories, seqTx, seqCat, lastSyncTime, now, deleting,
                     remote, history, seen, authVars, apiVars, pay, schema,
                     initVars, insightVars>>
besidePay == <<syncVars, seen, authVars, apiVars, validated, schema,
               initVars, insightVars>>

vars == <<isSyncing, calls, returned, dbOpen, transactions, categories, seqTx,
          seqCat, lastSyncTime, now, deleting, remote, history, others>>

IdleCall ==
  [pc |-> "idle", valid |-> <<>>, idx |-> 0, total |-> 0,
   syncTime |-> NoTimestamp]

\* no call has ended yet
NoReturn == [kind |-> "none", outcome |-> Rejected, thrown |-> {}]

NoHistory == [streak |-> 0, total |-> 0]

\* no read has run yet
NoRead == [op |-> "none", gap |-> 0, transactions |-> {}, totals |-> {}]

\* the secure store of a device nobody has logged in on
EmptySecureStore ==
  [credentials |-> Absent, token |-> Absent, expiry |-> Absent]

NoTokenCall == [pc |-> "idle", token |-> Absent, response |-> Absent]

NoTokenResult == [kind |-> "none", token |-> Absent, error |-> Absent]

NoLoginCall == [pc |-> "idle", response |-> Absent]

\* overlapped is history: a login was in flight during this logout
NoLogoutCall == [pc |-> "idle", overlapped |-> FALSE]

AuthInit ==
  /\ secure = EmptySecureStore
  /\ clock = 0
  /\ currentToken = Absent
  /\ issued = 0
  /\ expiryTime = 0
  /\ tokenCall = NoTokenCall
  /\ tokenResult = NoTokenResult
  /\ loginCall = NoLoginCall
  /\ logoutCall = NoLogoutCall
  /\ loggedOut = FALSE
  /\ ownExpiry = <<>>

\* getAllTransactions is not running.  requests, metas and pages are
\* history: the pages getTransactions has requested for the account at
\* hand, the totalPages and the transactions of the responses; log is
\* history, one entry per getTransactions call that has ended
IdleApi ==
  [pc |-> "idle", accounts |-> <<>>, i |-> 0, currentPage |-> 0,
   totalPages |-> 0, allTransactions |-> <<>>, all |-> <<>>,
   requests |-> <<>>, metas |-> {}, pages |-> <<>>, log |-> <<>>,
   notAuthenticated |-> FALSE]

\* the log entry of the getTransactions call of account a.i that ends
\* returning result, or throwing when result is Absent
LogEntry(a, result) ==
  [accountId |-> a.accounts[a.i].accountId, requests |-> a.requests,
   metas |-> a.metas, pages |-> a.pages, currentPage |-> a.currentPage,
   totalPages |-> a.totalPages, result |-> result]

\* no getAllTransactions call has ended since the last one began;
\* notAuthenticated is history: a token request of the run has thrown for
\* want of credentials
NoApiResult ==
  [kind |-> "none", transactions |-> <<>>, error |-> Absent,
   log |-> <<>>, notAuthenticated |-> FALSE]

ApiInit ==
  /\ api = IdleApi
  /\ apiResult = NoApiResult

NoValidation == [ran |-> FALSE, valid |-> <<>>, invalid |-> <<>>]

NoPay == [payDay |-> 0, today |-> 0, salaryDate |-> 0]

\* no caller of database.init() is under way
NoInitCall == [pc |-> "idle", idx |-> 0, rejected |-> 0]

\* no store operation has been issued after an init() yet
NoOperation == [by |-> "none", schema |-> FALSE, names |-> {}]

InitCallsInit ==
  /\ opened = 0
  /\ initCalls = [p \in InitCallers |-> NoInitCall]
  /\ operated = NoOperation

NoContext == [ran |-> FALSE, monthlyTrend |-> <<>>,
              recentTransactions |-> <<>>]

\* today and midnight are the day generateNudges runs on
NoNudges ==
  [ran |-> FALSE, today |-> 0, midnight |-> FALSE, totalSpending |-> 0,
   ids |-> <<>>]

InsightInit ==
  /\ context = NoContext
  /\ nudges = NoNudges

OthersInit ==
  /\ seen = NoRead
  /\ AuthInit
  /\ ApiInit
  /\ validated = NoValidation
  /\ pay = NoPay
  /\ InitCallsInit
  /\ InsightInit

Init ==
  /\ isSyncing = FALSE
  /\ calls = [c \in SyncCalls |-> IdleCall]
  /\ returned = NoReturn
  /\ dbOpen = FALSE
  /\ schema = FALSE
  /\ transactions = {}
  /\ categories = {}
  /\ seqTx = 0
  /\ seqCat = 0
  /\ lastSyncTime = NoTimestamp
  /\ now = 1
  /\ deleting = 0
  /\ remote = <<>>
  /\ history = NoHistory
  /\ OthersInit

(***************************************************************************)
(* SyncService.syncTransactions, one action per await point.               *)
(***************************************************************************)
\* the call of caller c returns outcome out, after catching the values in
\* thrown; its locals are gone
Return(c, out, thrown) ==
  /\ calls' = [calls EXCEPT ![c] = IdleCall]
  /\ returned' = [kind |-> "returned", outcome |-> out, thrown |-> thrown]

\* the check for an empty batch left out
NoValidTransactionsUnchecked(valid) == FALSE

\* validTransactions.length === 0 (line 109)
NoValidTransactions(valid) == Len(valid) = 0

\* the flag released at the end of the try block only, not in a finally
CatchWithoutFinally(c, error) ==
  /\ Return(c, CatchOutcome(error), {error})
  /\ UNCHANGED isSyncing
  /\ history' = NoHistory

\* a rejection inside the try block: catch turns the thrown value into a
\* Failed outcome, finally releases the flag (133-143)
Catch(c, error) ==
  /\ Return(c, CatchOutcome(error), {error})
  /\ isSyncing' = FALSE
  /\ history' = NoHistory

\* syncTransactions without the isSyncing check
SyncTransactionsUnguarded(c) ==
  /\ calls[c].pc = "idle"
  /\ isSyncing' = TRUE
  /\ calls' = [calls EXCEPT ![c].pc = "init"]
  /\ UNCHANGED <<returned, dbOpen, transactions, categories, seqTx, seqCat,
                 lastSyncTime, now, deleting, remote, others, history>>

\* syncTransactions whose rejection passes through the finally block
SyncTransactionsReleasing(c) ==
  /\ calls[c].pc = "idle"
  /\ IF isSyncing
     THEN /\ Return(c, Rejected, {})
          /\ isSyncing' = FALSE
     ELSE /\ isSyncing' = TRUE
          /\ calls' = [calls EXCEPT ![c].pc = "init"]
          /\ UNCHANGED returned
  /\ UNCHANGED <<dbOpen, transactions, categories, seqTx, seqCat,
                 lastSyncTime, now, deleting, remote, others, history>>

\* syncTransactions is called: rejected while a sync is running, else the
\* flag is taken and database.init() is awaited (30-44)
SyncTransactions(c) ==
  /\ calls[c].pc = "idle"
  /\ IF isSyncing
     THEN /\ Return(c, Rejected, {})
          /\ UNCHANGED isSyncing
     ELSE /\ isSyncing' = TRUE
          /\ calls' = [calls EXCEPT ![c].pc = "init"]
          /\ UNCHANGED returned
  /\ UNCHANGED <<dbOpen, transactions, categories, seqTx, seqCat,
                 lastSyncTime, now, deleting, remote, others, history>>

\* database.init(): nothing when the database is open, else open it, create
\* the schema and insert the default categories
DbInit ==
  IF dbOpen
  THEN UNCHANGED <<dbOpen, schema, categories, seqCat>>
  ELSE LET r == InsertDefaultCategories(categories, seqCat,
                                        Len(DefaultCategories))
       IN  /\ dbOpen' = TRUE
           /\ schema' = TRUE
           /\ categories' = r.cats
           /\ seqCat' = r.seq

\* initializeApp at startup (App.tsx): database.init() before any screen
InitializeApp ==
  /\ ~dbOpen
  /\ returned.kind = "none"
  /\ \A c \in SyncCalls : calls[c].pc = "idle"
  /\ DbInit
  /\ UNCHANGED <<isSyncing, calls, returned, transactions, seqTx,
                 lastSyncTime, now, deleting, remote, besideSchema, history>>

\* await database.init() resolves (44); getAllTransactions is awaited
InitReturn(c) ==
  /\ calls[c].pc = "init"
  /\ DbInit
  /\ calls' = [calls EXCEPT ![c].pc = "fetch"]
  /\ UNCHANGED <<isSyncing, returned, transactions, seqTx, lastSyncTime, now,
                 deleting, remote, besideSchema, history>>

\* await database.init() rejects: the database could not be opened
InitThrow(c) ==
  /\ calls[c].pc = "init"
  /\ ~dbOpen
  /\ Catch(c, Error("init failed"))
  /\ UNCHANGED <<dbOpen, transactions, categories, seqTx, seqCat,
                 lastSyncTime, now, deleting, remote, others>>

\* await getAllTransactions resolves with list (47); the records are
\* validated (60-100); without a valid record the run fails (109-116), else
\* the batch insert starts (119)
FetchResolves(c, list) ==
  /\ calls[c].pc = "fetch"
  /\ LET valid == ValidTransactions(list, Len(list))
         invalid == InvalidTransactions(list, Len(list))
     IN  IF NoValidTransactions(valid)
         THEN /\ Return(c, NoValid(Len(invalid)), {})
              /\ isSyncing' = FALSE
              /\ history' = NoHistory
         ELSE /\ calls' = [calls EXCEPT ![c] =
                             [@ EXCEPT !.pc = "insert", !.valid = valid,
                                       !.idx = 1]]
              /\ UNCHANGED <<isSyncing, returned, history>>

\* the fetch resolves with list, whatever the API client did
FetchReturn(c, list) ==
  /\ FetchResolves(c, list)
  /\ UNCHANGED <<dbOpen, transactions, categories, seqTx, seqCat,
                 lastSyncTime, now, deleting, remote, others>>

\* await getAllTransactions rejects: the account listing failed
FetchThrow(c) ==
  /\ calls[c].pc = "fetch"
  /\ Catch(c, Error("Failed to fetch accounts"))
  /\ UNCHANGED <<dbOpen, transactions, categories, seqTx, seqCat,
                 lastSyncTime, now, deleting, remote, others>>

\* insertTransactionsBatch (database.ts 112-118): the insertTransaction of
\* the row at idx resolves; after the last row getTotalTransactions is
\* awaited (syncService.ts 121)
InsertReturn(c) ==
  /\ calls[c].pc = "insert"
  /\ LET call == calls[c]
     IN  IF call.idx > Len(call.valid)
         THEN /\ calls' = [calls EXCEPT ![c].pc = "count"]
              /\ UNCHANGED <<transactions, seqTx>>
         ELSE /\ seqTx < MaxId
              /\ transactions' =
                   InsertTransaction(transactions, call.valid[call.idx],
                                     seqTx + 1)
              /\ seqTx' = seqTx + 1
              /\ calls' = [calls EXCEPT ![c] =
                             [@ EXCEPT !.idx = @ + 1,
                                       !.pc = IF call.idx = Len(call.valid)
                                              THEN "count" ELSE "insert"]]
  /\ UNCHANGED <<isSyncing, returned, dbOpen, categories, seqCat,
                 lastSyncTime, now, deleting, remote, others, history>>

\* a batch in a database transaction: the rejection rolls back the rows the
\* batch has inserted
InsertThrowRollingBack(c) ==
  /\ calls[c].pc = "insert"
  /\ calls[c].idx <= Len(calls[c].valid)
  /\ Catch(c, Error("insert failed"))
  /\ transactions' = {r \in transactions : r.id <= seqTx - (calls[c].idx - 1)}
  /\ UNCHANGED <<dbOpen, categories, seqTx, seqCat, lastSyncTime, now,
                 deleting, remote, others>>

\* the insertTransaction of the row at idx rejects: the batch loop has no
\* handler, so the rejection reaches the catch of syncTransactions
InsertThrow(c) ==
  /\ calls[c].pc = "insert"
  /\ calls[c].idx <= Len(calls[c].valid)
  /\ Catch(c, Error("insert failed"))
  /\ UNCHANGED <<dbOpen, transactions, categories, seqTx, seqCat,
                 lastSyncTime, now, deleting, remote, others>>

\* await getTotalTransactions resolves (121); syncTime = Date.now(), read
\* any time after the last reading, and saveLastSyncTime is awaited (124-125)
CountReturn(c, t) ==
  /\ calls[c].pc = "count"
  /\ t >= now
  /\ now' = t
  /\ calls' = [calls EXCEPT ![c] =
                 [@ EXCEPT !.pc = "save",
                           !.total = GetTotalTransactions(transactions),
                           !.syncTime = t]]
  /\ UNCHANGED <<isSyncing, returned, dbOpen, transactions, categories,
                 seqTx, seqCat, lastSyncTime, deleting, remote, others,
                 history>>

CountThrow(c) ==
  /\ calls[c].pc = "count"
  /\ Catch(c, Error("count failed"))
  /\ UNCHANGED <<dbOpen, transactions, categories, seqTx, seqCat,
                 lastSyncTime, now, deleting, remote, others>>

\* await saveLastSyncTime resolves (125): the run succeeded (127-132) and
\* finally releases the flag
SaveReturn(c) ==
  /\ calls[c].pc = "save"
  /\ lastSyncTime' = calls[c].syncTime
  /\ Return(c, Succeeded(Len(calls[c].valid), calls[c].total,
                         calls[c].syncTime), {})
  /\ isSyncing' = FALSE
  /\ history' = [streak |-> IF history.streak < 2 THEN history.streak + 1
                             ELSE 2,
                  total |-> Cardinality(transactions)]
  /\ UNCHANGED <<dbOpen, transactions, categories, seqTx, seqCat, now,
                 deleting, remote, others>>

SaveThrow(c) ==
  /\ calls[c].pc = "save"
  /\ Catch(c, Error("save failed"))
  /\ UNCHANGED <<dbOpen, transactions, categories, seqTx, seqCat,
                 lastSyncTime, now, deleting, remote, others>>

(***************************************************************************)
(* User actions on the store.                                              *)
(***************************************************************************)
\* the category ids a dialog offers
ListedCategories == {c.id : c \in categories} \cap (1..MaxCategoryArg)

\* UPDATE transactions SET category_id = ? WHERE id = ?
UpdateTransactionCategory(transactionId, categoryId) ==
  /\ dbOpen
  /\ transactions' =
       {IF r.id = transactionId THEN [r EXCEPT !.categoryId = categoryId]
        ELSE r : r \in transactions}
  /\ UNCHANGED <<isSyncing, calls, returned, dbOpen, categories, seqTx,
                 seqCat, lastSyncTime, now, deleting, remote, others, history>>

\* deleteCategory with its statements swapped: the category row goes first
DeleteCategoryRemoveFirst(id) ==
  /\ dbOpen
  /\ deleting = 0
  /\ categories' = {c \in categories : c.id # id}
  /\ deleting' = id
  /\ UNCHANGED <<isSyncing, calls, returned, dbOpen, transactions, seqTx,
                 seqCat, lastSyncTime, now, remote, others, history>>

\* deleteCategory whose UPDATE lacks its WHERE clause
DeleteCategoryNullAll(id) ==
  /\ dbOpen
  /\ deleting = 0
  /\ transactions' =
       {[r EXCEPT !.categoryId = NullCategory] : r \in transactions}
  /\ deleting' = id
  /\ UNCHANGED <<isSyncing, calls, returned, dbOpen, categories, seqTx,
                 seqCat, lastSyncTime, now, remote, others, history>>

\* deleteCategory, first statement: UPDATE transactions SET category_id =
\* NULL WHERE category_id = ?
DeleteCategoryNullRefs(id) ==
  /\ dbOpen
  /\ deleting = 0
  /\ transactions' =
       {IF r.categoryId = id THEN [r EXCEPT !.categoryId = NullCategory]
        ELSE r : r \in transactions}
  /\ deleting' = id
  /\ UNCHANGED <<isSyncing, calls, returned, dbOpen, categories, seqTx,
                 seqCat, lastSyncTime, now, remote, others, history>>

\* deleteCategory, second statement: DELETE FROM categories WHERE id = ?
DeleteCategoryRemove ==
  /\ deleting # 0
  /\ categories' = {c \in categories : c.id # deleting}
  /\ deleting' = 0
  /\ UNCHANGED <<isSyncing, calls, returned, dbOpen, transactions, seqTx,
                 seqCat, lastSyncTime, now, remote, others, history>>

\* createCategory (300-309): INSERT INTO categories; name is UNIQUE, so the
\* statement is rejected when a category has the name
CreateCategory(name, color, icon) ==
  /\ dbOpen
  /\ seqCat < Len(DefaultCategories) + MaxCreated
  /\ IF \E c \in categories : c.name = name
     THEN UNCHANGED <<categories, seqCat>>
     ELSE /\ categories' = categories \cup
                             {[id |-> seqCat + 1, name |-> name,
                               color |-> color, icon |-> icon]}
          /\ seqCat' = seqCat + 1
  /\ UNCHANGED <<isSyncing, calls, returned, dbOpen, transactions, seqTx,
                 lastSyncTime, now, deleting, remote, others, history>>

\* the user picks a category for a listed transaction
Categorize ==
  \E r \in transactions : \E cid \in ListedCategories :
    UpdateTransactionCategory(r.id, cid)

\* the user deletes a listed category
DeleteCategory ==
  \/ \E id \in ListedCategories : DeleteCategoryNullRefs(id)
  \/ DeleteCategoryRemove

\* a step of caller c's syncTransactions, the fetch answering with list
SyncStep(c, lists) ==
  \/ SyncTransactions(c)
  \/ InitReturn(c)
  \/ InitThrow(c)
  \/ \E list \in lists : FetchReturn(c, list)
  \/ FetchThrow(c)
  \/ InsertReturn(c)
  \/ InsertThrow(c)
  \/ \E t \in 1..MaxNow : CountReturn(c, t)
  \/ CountThrow(c)
  \/ SaveReturn(c)
  \/ SaveThrow(c)

\* the callers syncing concurrently
Next ==
  \/ InitializeApp
  \/ \E c \in SyncCalls : SyncStep(c, FetchLists)

Spec == Init /\ [][Next]_vars

\* one caller syncing while the user categorizes and deletes categories
NextStore ==
  \/ InitializeApp
  \/ SyncStep("home", FetchLists)
  \/ Categorize
  \/ DeleteCategory

SpecStore == Init /\ [][NextStore]_vars

\* the user creates a category: a new one, or one under a name in use
NewCategory ==
  \E name \in {"Travel", "Groceries"} :
    CreateCategory(name, "#FFFFFF", Absent)

\* the bank holds the same records throughout: every fetch returns them
InitRepeat ==
  \E list \in FetchLists :
    /\ remote = list
    /\ isSyncing = FALSE
    /\ calls = [c \in SyncCalls |-> IdleCall]
    /\ returned = NoReturn
    /\ dbOpen = FALSE
    /\ schema = FALSE
    /\ transactions = {}
    /\ categories = {}
    /\ seqTx = 0
    /\ seqCat = 0
    /\ lastSyncTime = NoTimestamp
    /\ now = 1
    /\ deleting = 0
    /\ history = NoHistory
    /\ OthersInit

NextRepeat ==
  \/ InitializeApp
  \/ \E c \in SyncCalls : SyncStep(c, {remote})
  \/ Categorize

SpecRepeat == InitRepeat /\ [][NextRepeat]_vars

(***************************************************************************)
(* Reads of the store (database.ts), each a single SQL statement.  The     *)
(* ORDER BY of the queries is not modelled: a result is a set of rows.     *)
(***************************************************************************)
\* the transaction dates of the model, in the order SQLite compares the
\* ISO strings
IsoDates == <<"2024-12-31", "2025-01-01", "2025-01-15", "2025-02-01">>

IsoIndex(d) == CHOOSE i \in 1..Len(IsoDates) : IsoDates[i] = d

\* d BETWEEN startDate AND endDate on ISO date strings
Between(d, startDate, endDate) ==
  /\ IsoIndex(startDate) <= IsoIndex(d)
  /\ IsoIndex(d) <= IsoIndex(endDate)

\* transactions t LEFT JOIN categories c ON t.category_id = c.id: every row
\* of rows with the name and color of its category, NULL without one
JoinCategory(rows, cats) ==
  { r @@ [categoryName |-> Some(c.name), categoryColor |-> Some(c.color)]
      : <<r, c>> \in {p \in rows \X cats : p[1].categoryId = p[2].id} }
  \cup
  { r @@ [categoryName |-> Absent, categoryColor |-> Absent]
      : r \in {q \in rows : \A c \in cats : c.id # q.categoryId} }

\* getTransactions() without limit (120-162)
GetTransactions(rows, cats) == JoinCategory(rows, cats)

\* getTransactionById(id) (164-200): the row, or none
GetTransactionByIdJoined(rows, cats, id) ==
  JoinCategory(GetTransactionById(rows, id), cats)

\* getTransactionsByCategory(categoryId) (248-283)
GetTransactionsByCategory(rows, cats, categoryId) ==
  JoinCategory({r \in rows : r.categoryId = categoryId}, cats)

\* SUM(t.amount) over the rows of one group
RECURSIVE SumAmount(_)
SumAmount(rows) ==
  IF rows = {} THEN 0
  ELSE LET r == CHOOSE q \in rows : TRUE
       IN  r.amount + SumAmount(rows \ {r})

\* the window of getCategoryTotals applies when both dates are truthy
HasWindow(startDate, endDate) == TruthyStr(startDate) /\ TruthyStr(endDate)

\* the rows of categories c LEFT JOIN transactions t ON c.id = t.category_id
\* that belong to category c and pass the WHERE clause: the transactions of
\* c, or the one row whose t columns are NULL when c has none; under the
\* window, t.transaction_date BETWEEN ? AND ? is not true of a NULL date
GroupRows(c, rows, startDate, endDate) ==
  LET mine == {r \in rows : r.categoryId = c.id}
      joined == IF mine = {} THEN {Absent} ELSE {Some(r) : r \in mine}
  IN  IF HasWindow(startDate, endDate)
      THEN {j \in joined :
              /\ j # Absent
              /\ Between(j[1].transactionDate, startDate[1], endDate[1])}
      ELSE joined

\* getCategoryTotals(startDate?, endDate?) (334-366): one entry per group of
\* the GROUP BY, that is per category with a row left after the WHERE;
\* SUM over NULLs is NULL and `row.total || 0` turns it into 0
GetCategoryTotals(cats, rows, startDate, endDate) ==
  { LET g == GroupRows(c, rows, startDate, endDate)
        ts == {j[1] : j \in g \ {Absent}}
    IN  [categoryId |-> c.id, categoryName |-> c.name,
         categoryColor |-> c.color, total |-> SumAmount(ts),
         count |-> Cardinality(ts)]
    : c \in {d \in cats : GroupRows(d, rows, startDate, endDate) # {}} }

\* a read returns: seen keeps its result and, for the record, the category
\* a deleteCategory was between its two statements for
Read(op, rows, totals) ==
  /\ dbOpen
  /\ seen' = [op |-> op, gap |-> deleting, transactions |-> rows,
              totals |-> totals]
  /\ UNCHANGED besideReads

ReadTransactions ==
  Read("getTransactions", GetTransactions(transactions, categories), {})

ReadTransactionById ==
  \E id \in 1..MaxId :
    Read("getTransactionById",
         GetTransactionByIdJoined(transactions, categories, id), {})

ReadTransactionsByCategory ==
  \E id \in 1..(MaxCategoryArg + 1) :
    Read("getTransactionsByCategory",
         GetTransactionsByCategory(transactions, categories, id), {})

\* the dates a caller passes: none, or a window
WindowDates == {Absent} \cup {Some(IsoDates[i]) : i \in 1..Len(IsoDates)}

ReadCategoryTotals ==
  \E startDate, endDate \in WindowDates :
    Read("getCategoryTotals", {},
         GetCategoryTotals(categories, transactions, startDate, endDate))

\* the stores of two synced records, categorized or not, in an open database
StoredRecords ==
  { [accountId |-> Some("acc1"), type |-> Some("DEBIT"),
     transactionType |-> Some("CardPurchases"), status |-> Some("POSTED"),
     description |-> Some("coffee"), cardNumber |-> Absent,
     postedOrder |-> Absent, postingDate |-> Absent, valueDate |-> Absent,
     actionDate |-> Absent, transactionDate |-> Some(d),
     amount |-> Some(25), runningBalance |-> Absent]
    : d \in {"2025-01-01", "2025-01-15"} }

InitReads ==
  /\ isSyncing = FALSE
  /\ calls = [c \in SyncCalls |-> IdleCall]
  /\ returned = NoReturn
  /\ dbOpen = TRUE
  /\ schema = TRUE
  /\ \E cat \in [StoredRecords -> 0..(MaxCategoryArg + 1)] :
       transactions =
         { Row([Sanitize(t) EXCEPT !.categoryId = cat[t]],
               IsoIndex(t.transactionDate[1]) - 1)
           : t \in StoredRecords }
  /\ categories =
       InsertDefaultCategories({}, 0, Len(DefaultCategories)).cats
  /\ seqTx = 2
  /\ seqCat = Len(DefaultCategories)
  /\ lastSyncTime = 1
  /\ now = 1
  /\ deleting = 0
  /\ remote = <<>>
  /\ history = NoHistory
  /\ OthersInit

\* deleteCategory running while the screens read the store
NextReads ==
  \/ DeleteCategory
  \/ ReadTransactions
  \/ ReadTransactionById
  \/ ReadTransactionsByCategory
  \/ ReadCategoryTotals

SpecReads == InitReads /\ [][NextReads]_vars

\* a sync upserting into the open database while the user categorizes,
\* creates and deletes categories, on a store that holds two records
NextIntegrity ==
  \/ SyncTransactions("home")
  \/ InitReturn("home")
  \/ \E list \in FetchLists : FetchReturn("home", list)
  \/ FetchThrow("home")
  \/ InsertReturn("home")
  \/ InsertThrow("home")
  \/ \E t \in 1..MaxNow : CountReturn("home", t)
  \/ CountThrow("home")
  \/ SaveReturn("home")
  \/ SaveThrow("home")
  \/ Categorize
  \/ NewCategory
  \/ DeleteCategory

SpecIntegrity == InitReads /\ [][NextIntegrity]_vars

(***************************************************************************)
(* Token cache (secureStorage.ts) and InvestecAuthService                  *)
(* (investecAuth.ts), one action per await point.                          *)
(***************************************************************************)
\* the 5 minute buffer of the token cache, in milliseconds
TokenBuffer == 300000

\* the values Date.now() takes: the full seconds and the milliseconds
\* around them
Instants ==
  {s * 1000 + d : s \in 0..MaxSeconds, d \in {0 - 1, 0, 1}} \cap Nat

\* the lifetimes expires_in the bank grants, in seconds
ExpiresIn == {290} \cup (299..(300 + MaxSeconds))

Token(n) == "token" \o ToString(n)

\* Number.prototype.toString of a natural number, as its decimal digits
RECURSIVE NumberToString(_)
NumberToString(n) ==
  IF n < 10 THEN <<n>> ELSE Append(NumberToString(n \div 10), n % 10)

\* parseInt of a string of decimal digits
RECURSIVE ParseInt(_)
ParseInt(digits) ==
  IF Len(digits) = 1 THEN digits[1]
  ELSE 10 * ParseInt(SubSeq(digits, 1, Len(digits) - 1))
         + digits[Len(digits)]

\* the decision of secureStorage.getAccessToken taken without the buffer's
\* boundary: a token whose buffer starts now still counts as valid
CachedTokenLate(token, expiry, t) ==
  IF ~TruthyStr(token) \/ expiry = Absent \/ expiry = Some(<<>>)
  THEN Absent
  ELSE IF t > ParseInt(expiry[1]) - TokenBuffer THEN Absent ELSE token

\* the decision of secureStorage.getAccessToken (35-42) on the entries it
\* has read, Date.now() being t: the token, or null
CachedToken(token, expiry, t) ==
  IF ~TruthyStr(token) \/ expiry = Absent \/ expiry = Some(<<>>)
  THEN Absent
  ELSE IF t >= ParseInt(expiry[1]) - TokenBuffer THEN Absent ELSE token

\* the token response of the bank: token number n, living e seconds
TokenResponse(n, e) ==
  [access_token |-> Token(n), expires_in |-> NumberToString(e)]

\* expiryTime of saveAccessToken(token, expiresIn) (26)
ExpiryTime(t, expiresIn) == t + expiresIn * 1000

\* time passes
Tick ==
  /\ \E t \in Instants : t > clock /\ clock' = t
  /\ UNCHANGED <<secure, currentToken, issued, expiryTime, tokenCall,
                 tokenResult, loginCall, logoutCall, loggedOut>>
  /\ UNCHANGED besideAuth

\* the getAccessToken call ends, returning a token or throwing
TokenReturn(result) ==
  /\ tokenCall' = NoTokenCall
  /\ tokenResult' = result

\* investecAuth.getAccessToken() is called (46): secureStorage.getAccessToken
\* awaits the token entry
StartToken ==
  /\ tokenCall.pc = "idle"
  /\ tokenCall' = [tokenCall EXCEPT !.pc = "getToken"]

\* a caller other than the API client asks for a token
GetAccessToken ==
  /\ StartToken
  /\ UNCHANGED <<secure, clock, currentToken, issued, expiryTime,
                 tokenResult, loginCall, logoutCall, loggedOut>>
  /\ UNCHANGED besideAuth

\* the token entry is read (secureStorage.ts 32); the expiry is awaited
GetToken ==
  /\ tokenCall.pc = "getToken"
  /\ tokenCall' = [tokenCall EXCEPT !.pc = "getExpiry", !.token = secure.token]
  /\ UNCHANGED <<secure, clock, currentToken, issued, expiryTime,
                 tokenResult, loginCall, logoutCall, loggedOut>>
  /\ UNCHANGED besideAuth

\* the expiry entry is read (33) and the cache decides (35-42): a valid
\* token is returned (investecAuth.ts 49-52), else the credentials are
\* awaited (55)
GetExpiry ==
  /\ tokenCall.pc = "getExpiry"
  /\ LET cachedToken == CachedToken(tokenCall.token, secure.expiry, clock)
     IN  IF TruthyStr(cachedToken)
         THEN /\ currentToken' = cachedToken
              /\ TokenReturn([kind |-> "token", token |-> cachedToken,
                              error |-> Absent])
         ELSE /\ tokenCall' = [tokenCall EXCEPT !.pc = "getCredentials"]
              /\ UNCHANGED <<currentToken, tokenResult>>
  /\ UNCHANGED <<secure, clock, issued, expiryTime, loginCall, logoutCall,
                 loggedOut>>
  /\ UNCHANGED besideAuth

\* the credentials are read (55-58): without them the call throws, with
\* them the exchange with the bank is awaited (61)
GetCredentials ==
  /\ tokenCall.pc = "getCredentials"
  /\ IF secure.credentials = Absent
     THEN TokenReturn([kind |-> "thrown", token |-> Absent,
                       error |-> Some(NotAuthenticated)])
     ELSE /\ tokenCall' = [tokenCall EXCEPT !.pc = "fetch"]
          /\ UNCHANGED tokenResult
  /\ UNCHANGED <<secure, clock, currentToken, issued, expiryTime, loginCall,
                 logoutCall, loggedOut>>
  /\ UNCHANGED besideAuth

\* fetchAccessToken resolves (61): saveAccessToken computes expiryTime and
\* awaits the write of the token (secureStorage.ts 26-27)
FetchAccessTokenReturn(e) ==
  /\ tokenCall.pc = "fetch"
  /\ issued < MaxTokens
  /\ issued' = issued + 1
  /\ LET response == TokenResponse(issued + 1, e)
     IN  tokenCall' =
           [tokenCall EXCEPT
              !.pc = "saveToken",
              !.response =
                Some([access_token |-> response.access_token,
                      expiryTime |->
                        ExpiryTime(clock, ParseInt(response.expires_in))])]
  /\ UNCHANGED <<secure, clock, currentToken, expiryTime, tokenResult,
                 loginCall, logoutCall, loggedOut>>
  /\ UNCHANGED besideAuth

\* fetchAccessToken rejects (88-94)
FetchAccessTokenThrow ==
  /\ tokenCall.pc = "fetch"
  /\ TokenReturn([kind |-> "thrown", token |-> Absent,
                  error |-> Some(Error("Authentication failed"))])
  /\ UNCHANGED <<secure, clock, currentToken, issued, expiryTime, loginCall,
                 logoutCall, loggedOut>>
  /\ UNCHANGED besideAuth

\* the token entry is written (secureStorage.ts 27); the write of the
\* expiry is awaited
SaveToken ==
  /\ tokenCall.pc = "saveToken"
  /\ secure' =
       [secure EXCEPT !.token = Some(tokenCall.response[1].access_token)]
  /\ ownExpiry' = (tokenCall.response[1].access_token
                     :> tokenCall.response[1].expiryTime) @@ ownExpiry
  /\ tokenCall' = [tokenCall EXCEPT !.pc = "saveExpiry"]
  /\ UNCHANGED <<clock, currentToken, issued, expiryTime, tokenResult,
                 loginCall, logoutCall, loggedOut>>
  /\ UNCHANGED besideTokens

\* the expiry entry is written (28); getAccessToken returns the new token
\* (investecAuth.ts 63-65)
SaveExpiry ==
  /\ tokenCall.pc = "saveExpiry"
  /\ secure' =
       [secure EXCEPT
          !.expiry = Some(NumberToString(tokenCall.response[1].expiryTime))]
  /\ expiryTime' = tokenCall.response[1].expiryTime
  /\ currentToken' = Some(tokenCall.response[1].access_token)
  /\ TokenReturn([kind |-> "token",
                  token |-> Some(tokenCall.response[1].access_token),
                  error |-> Absent])
  /\ UNCHANGED <<clock, issued, loginCall, logoutCall, loggedOut>>
  /\ UNCHANGED besideAuth

\* a step of a running investecAuth.getAccessToken
TokenAwait ==
  \/ GetToken
  \/ GetExpiry
  \/ GetCredentials
  \/ \E e \in ExpiresIn : FetchAccessTokenReturn(e)
  \/ FetchAccessTokenThrow
  \/ SaveToken
  \/ SaveExpiry

\* a step of investecAuth.getAccessToken
TokenStep ==
  \/ GetAccessToken
  \/ TokenAwait

\* a device on which login has completed at time 0, the bank having
\* granted any of the lifetimes
InitToken ==
  /\ \E e \in ExpiresIn :
       /\ secure = [credentials |-> Some("credentials"),
                    token |-> Some(Token(1)),
                    expiry |-> Some(NumberToString(ExpiryTime(0, e)))]
       /\ expiryTime = ExpiryTime(0, e)
       /\ ownExpiry = Token(1) :> ExpiryTime(0, e)
  /\ clock = 0
  /\ currentToken = Some(Token(1))
  /\ issued = 1
  /\ tokenCall = NoTokenCall
  /\ tokenResult = NoTokenResult
  /\ loginCall = NoLoginCall
  /\ logoutCall = NoLogoutCall
  /\ loggedOut = FALSE
  /\ seen = NoRead
  /\ ApiInit
  /\ validated = NoValidation
  /\ pay = NoPay
  /\ isSyncing = FALSE
  /\ calls = [c \in SyncCalls |-> IdleCall]
  /\ returned = NoReturn
  /\ dbOpen = FALSE
  /\ schema = FALSE
  /\ transactions = {}
  /\ categories = {}
  /\ seqTx = 0
  /\ seqCat = 0
  /\ lastSyncTime = NoTimestamp
  /\ now = 1
  /\ deleting = 0
  /\ remote = <<>>
  /\ history = NoHistory
  /\ InitCallsInit
  /\ InsightInit

\* the token cache in use while time passes
NextToken ==
  \/ Tick
  \/ TokenStep

SpecToken == InitToken /\ [][NextToken]_vars

\* investecAuth.login(credentials) is called (25): the exchange with the
\* bank is awaited (27)
Login ==
  /\ loginCall.pc = "idle"
  /\ loginCall' = [loginCall EXCEPT !.pc = "fetch"]
  /\ loggedOut' = FALSE
  /\ logoutCall' =
       [logoutCall EXCEPT !.overlapped = logoutCall.pc # "idle"]
  /\ UNCHANGED <<secure, clock, currentToken, issued, expiryTime, tokenCall,
                 tokenResult>>
  /\ UNCHANGED besideAuth

\* the exchange resolves (27); the write of the credentials is awaited (30)
LoginFetchReturn(e) ==
  /\ loginCall.pc = "fetch"
  /\ issued < MaxTokens
  /\ issued' = issued + 1
  /\ loginCall' =
       [loginCall EXCEPT !.pc = "saveCredentials",
                         !.response = Some(TokenResponse(issued + 1, e))]
  /\ UNCHANGED <<secure, clock, currentToken, expiryTime, tokenCall,
                 tokenResult, logoutCall, loggedOut>>
  /\ UNCHANGED besideAuth

\* the exchange rejects: login throws, nothing is stored
LoginFetchThrow ==
  /\ loginCall.pc = "fetch"
  /\ loginCall' = NoLoginCall
  /\ UNCHANGED <<secure, clock, currentToken, issued, expiryTime, tokenCall,
                 tokenResult, logoutCall, loggedOut>>
  /\ UNCHANGED besideAuth

\* the credentials are written (secureStorage.ts 11); saveAccessToken
\* computes expiryTime and awaits the write of the token (26-27)
LoginSaveCredentials ==
  /\ loginCall.pc = "saveCredentials"
  /\ secure' = [secure EXCEPT !.credentials = Some("credentials")]
  /\ LET response == loginCall.response[1]
     IN  loginCall' =
           [loginCall EXCEPT
              !.pc = "saveToken",
              !.response =
                Some([access_token |-> response.access_token,
                      expiryTime |->
                        ExpiryTime(clock, ParseInt(response.expires_in))])]
  /\ UNCHANGED <<clock, currentToken, issued, expiryTime, tokenCall,
                 tokenResult, logoutCall, loggedOut>>
  /\ UNCHANGED besideAuth

\* the token entry is written (27)
LoginSaveToken ==
  /\ loginCall.pc = "saveToken"
  /\ secure' =
       [secure EXCEPT !.token = Some(loginCall.response[1].access_token)]
  /\ ownExpiry' = (loginCall.response[1].access_token
                     :> loginCall.response[1].expiryTime) @@ ownExpiry
  /\ loginCall' = [loginCall EXCEPT !.pc = "saveExpiry"]
  /\ UNCHANGED <<clock, currentToken, issued, expiryTime, tokenCall,
                 tokenResult, logoutCall, loggedOut>>
  /\ UNCHANGED besideTokens

\* the expiry entry is written (28); login sets currentToken and returns
\* (investecAuth.ts 32)
LoginSaveExpiry ==
  /\ loginCall.pc = "saveExpiry"
  /\ secure' =
       [secure EXCEPT
          !.expiry = Some(NumberToString(loginCall.response[1].expiryTime))]
  /\ expiryTime' = loginCall.response[1].expiryTime
  /\ currentToken' = Some(loginCall.response[1].access_token)
  /\ loginCall' = NoLoginCall
  /\ UNCHANGED <<clock, issued, tokenCall, tokenResult, logoutCall,
                 loggedOut>>
  /\ UNCHANGED besideAuth

\* a step of investecAuth.login
LoginStep ==
  \/ Login
  \/ \E e \in ExpiresIn : LoginFetchReturn(e)
  \/ LoginFetchThrow
  \/ LoginSaveCredentials
  \/ LoginSaveToken
  \/ LoginSaveExpiry

\* investecAuth.logout() is called (38): deleteCredentials awaits the
\* removal of the credentials (secureStorage.ts 20)
Logout ==
  /\ logoutCall.pc = "idle"
  /\ logoutCall' = [pc |-> "deleteCredentials",
                    overlapped |-> loginCall.pc # "idle"]
  /\ UNCHANGED <<secure, clock, currentToken, issued, expiryTime, tokenCall,
                 tokenResult, loginCall, loggedOut>>
  /\ UNCHANGED besideAuth

\* the credentials entry is removed (20)
DeleteCredentials ==
  /\ logoutCall.pc = "deleteCredentials"
  /\ secure' = [secure EXCEPT !.credentials = Absent]
  /\ logoutCall' = [logoutCall EXCEPT !.pc = "deleteToken"]
  /\ UNCHANGED <<clock, currentToken, issued, expiryTime, tokenCall,
                 tokenResult, loginCall, loggedOut>>
  /\ UNCHANGED besideAuth

\* the token entry is removed (21)
DeleteToken ==
  /\ logoutCall.pc = "deleteToken"
  /\ secure' = [secure EXCEPT !.token = Absent]
  /\ logoutCall' = [logoutCall EXCEPT !.pc = "deleteExpiry"]
  /\ UNCHANGED <<clock, currentToken, issued, expiryTime, tokenCall,
                 tokenResult, loginCall, loggedOut>>
  /\ UNCHANGED besideAuth

\* the expiry entry is removed (22); logout clears currentToken and returns
\* (investecAuth.ts 40).  loggedOut holds from here on unless a login was
\* in flight during the logout
DeleteExpiry ==
  /\ logoutCall.pc = "deleteExpiry"
  /\ secure' = [secure EXCEPT !.expiry = Absent]
  /\ currentToken' = Absent
  /\ logoutCall' = NoLogoutCall
  /\ loggedOut' = ~logoutCall.overlapped
  /\ UNCHANGED <<clock, issued, expiryTime, tokenCall, tokenResult,
                 loginCall>>
  /\ UNCHANGED besideAuth

\* a step of investecAuth.logout
LogoutStep ==
  \/ Logout
  \/ DeleteCredentials
  \/ DeleteToken
  \/ DeleteExpiry

\* the user logs in and out while a token is requested
NextAuth ==
  \/ TokenStep
  \/ LoginStep
  \/ LogoutStep

SpecAuth == Init /\ [][NextAuth]_vars

(***************************************************************************)
(* InvestecApiService (investecApi.ts): getAllTransactions with the        *)
(* getAccounts and getTransactions calls it awaits, one action per await   *)
(* point.  The fromDate and toDate parameters only add to the URL.         *)
(***************************************************************************)
AccountId(n) == "acc" \o ToString(n)

\* the account listings of the bank
AccountLists ==
  { [k \in 1..n |-> [accountId |-> AccountId(k)]] : n \in 0..MaxAccounts }

\* the record the bank holds on page p of account a
PageRecord(a, p) ==
  [accountId |-> Some(a), type |-> Some("DEBIT"),
   transactionType |-> Some("CardPurchases"), status |-> Some("POSTED"),
   description |-> Some("page " \o ToString(p)), cardNumber |-> Absent,
   postedOrder |-> Absent, postingDate |-> Absent, valueDate |-> Absent,
   actionDate |-> Absent, transactionDate |-> Some("2025-01-01"),
   amount |-> Some(25), runningBalance |-> Absent]

\* response.data.data.transactions of page p of account a: undefined, or
\* the page's record
PageTransactions(a, p) == {Absent, Some(<<PageRecord(a, p)>>)}

\* response.data.meta?.totalPages: undefined, 0, or a number of pages
PageMetas == {Absent} \cup {Some(n) : n \in 0..MaxPages}

\* `transactions || []`
OrElseList(f) == IF f = Absent THEN <<>> ELSE f[1]

RECURSIVE Flatten(_)
Flatten(lists) ==
  IF lists = <<>> THEN <<>>
  ELSE Flatten(SubSeq(lists, 1, Len(lists) - 1)) \o lists[Len(lists)]

\* getAllTransactions ends, returning transactions or throwing error
ApiReturn(kind, list, error) ==
  /\ api' = IdleApi
  /\ apiResult' =
       [kind |-> kind, transactions |-> list, error |-> error,
        log |-> api.log,
        notAuthenticated |->
          api.notAuthenticated \/ error = Some(NotAuthenticated)]

\* the loop of getAllTransactions goes on after account i (125-132): the
\* next account's getTransactions asks for its headers, or the collected
\* transactions are returned; a is the api record at the end of account i
NextAccount(a) ==
  IF a.i < Len(a.accounts)
  THEN /\ api' = [a EXCEPT !.pc = "transactionsToken", !.i = a.i + 1]
       /\ StartToken
       /\ UNCHANGED apiResult
  ELSE /\ api' = IdleApi
       /\ apiResult' =
            [kind |-> "returned", transactions |-> a.all, error |-> Absent,
             log |-> a.log, notAuthenticated |-> a.notAuthenticated]
       /\ UNCHANGED tokenCall

\* getAllTransactions is called (120): getAccounts asks for its headers
\* (32), which awaits investecAuth.getAccessToken (20)
GetAllTransactions ==
  /\ api.pc = "idle"
  /\ api' = [IdleApi EXCEPT !.pc = "accountsToken"]
  /\ apiResult' = NoApiResult
  /\ StartToken
  /\ UNCHANGED besideApi

\* the token call of getAccounts has ended: with a token the accounts are
\* requested (33), a thrown error passes through the catch of getAccounts
\* (39-44) and out of getAllTransactions
AccountsHeaders ==
  /\ api.pc = "accountsToken"
  /\ tokenCall.pc = "idle"
  /\ IF tokenResult.kind = "token"
     THEN /\ api' = [api EXCEPT !.pc = "accounts"]
          /\ UNCHANGED apiResult
     ELSE ApiReturn("thrown", <<>>, tokenResult.error)
  /\ UNCHANGED tokenCall
  /\ UNCHANGED besideApi

\* the accounts request resolves with accounts (33-38)
AccountsReturn(accounts) ==
  /\ api.pc = "accounts"
  /\ NextAccount([api EXCEPT !.accounts = accounts])
  /\ UNCHANGED besideApi

\* the accounts request rejects (39-44)
AccountsThrow ==
  /\ api.pc = "accounts"
  /\ ApiReturn("thrown", <<>>, Some(Error("Failed to fetch accounts")))
  /\ UNCHANGED tokenCall
  /\ UNCHANGED besideApi

\* getTransactions went on to page 2 without a second page being reported
RequestsPageTwo(currentPage, totalPages) == currentPage <= totalPages + 1

\* the condition of the do ... while loop (106)
RequestsPage(currentPage, totalPages) == currentPage <= totalPages

\* the catch of getAllTransactions that lets the error of an account out
AccountFailedRaising(a) ==
  /\ api' = IdleApi
  /\ apiResult' =
       [kind |-> "thrown", transactions |-> <<>>,
        error |-> Some(Error("Failed to fetch transactions")),
        log |-> a.log, notAuthenticated |-> a.notAuthenticated]
  /\ UNCHANGED tokenCall

\* getTransactions of account i has thrown: the catch of getAllTransactions
\* logs the error and the loop goes on (128-130)
AccountFailed(a) ==
  NextAccount([a EXCEPT !.log = Append(a.log, LogEntry(a, Absent))])

\* the token call of getTransactions has ended: with a token page 1 is
\* requested (76-94), a thrown error passes through the catch of
\* getTransactions (109-114) into the catch of getAllTransactions
TransactionsHeaders ==
  /\ api.pc = "transactionsToken"
  /\ tokenCall.pc = "idle"
  /\ IF tokenResult.kind = "token"
     THEN /\ api' = [api EXCEPT !.pc = "page", !.currentPage = 1,
                                !.totalPages = 1, !.allTransactions = <<>>,
                                !.requests = <<1>>, !.metas = {},
                                !.pages = <<>>]
          /\ UNCHANGED <<apiResult, tokenCall>>
     ELSE AccountFailed(
            [api EXCEPT !.requests = <<>>, !.metas = {}, !.pages = <<>>,
                        !.notAuthenticated =
                          \/ api.notAuthenticated
                          \/ tokenResult.error = Some(NotAuthenticated)])
  /\ UNCHANGED besideApi

\* the request of page currentPage resolves (94-106): its transactions are
\* appended, a truthy totalPages is taken over, and either the next page is
\* requested or getTransactions returns to the loop of getAllTransactions,
\* which appends the account's transactions (126-127)
PageResolves(page, meta) ==
  /\ api.pc = "page"
  /\ LET allTransactions == api.allTransactions \o OrElseList(page)
         totalPages == IF TruthyNum(meta) THEN meta[1] ELSE api.totalPages
         currentPage == api.currentPage + 1
         a == [api EXCEPT !.allTransactions = allTransactions,
                          !.totalPages = totalPages,
                          !.currentPage = currentPage,
                          !.metas = api.metas \cup {meta},
                          !.pages = Append(api.pages, OrElseList(page))]
     IN  IF RequestsPage(currentPage, totalPages)
         THEN /\ api' =
                   [a EXCEPT !.requests = Append(a.requests, currentPage)]
              /\ UNCHANGED <<apiResult, tokenCall>>
         ELSE NextAccount(
                [a EXCEPT !.all = a.all \o allTransactions,
                          !.log = Append(a.log,
                                         LogEntry(a, Some(allTransactions)))])
  /\ UNCHANGED besideApi

\* the request resolves at a bank that reports the same totalPages on every
\* page of an account
PageReturn(page, meta) ==
  /\ api.metas \subseteq {meta}
  /\ PageResolves(page, meta)

\* the request of a page rejects (109-114)
PageThrow ==
  /\ api.pc = "page"
  /\ AccountFailed(api)
  /\ UNCHANGED besideApi

\* a step of investecApi.getAllTransactions
ApiStep ==
  \/ GetAllTransactions
  \/ AccountsHeaders
  \/ \E accounts \in AccountLists : AccountsReturn(accounts)
  \/ AccountsThrow
  \/ TransactionsHeaders
  \/ /\ api.pc = "page"
     /\ \E meta \in PageMetas :
          \E page \in PageTransactions(api.accounts[api.i].accountId,
                                       api.currentPage) :
            PageReturn(page, meta)
  \/ PageThrow

\* a device on which login has completed, the cached token valid or not
InitApi ==
  /\ \E e \in {300, 301} :
       /\ secure = [credentials |-> Some("credentials"),
                    token |-> Some(Token(1)),
                    expiry |-> Some(NumberToString(ExpiryTime(0, e)))]
       /\ expiryTime = ExpiryTime(0, e)
       /\ ownExpiry = Token(1) :> ExpiryTime(0, e)
  /\ clock = 0
  /\ currentToken = Some(Token(1))
  /\ issued = 1
  /\ tokenCall = NoTokenCall
  /\ tokenResult = NoTokenResult
  /\ loginCall = NoLoginCall
  /\ logoutCall = NoLogoutCall
  /\ loggedOut = FALSE
  /\ seen = NoRead
  /\ ApiInit
  /\ validated = NoValidation
  /\ pay = NoPay
  /\ isSyncing = FALSE
  /\ calls = [c \in SyncCalls |-> IdleCall]
  /\ returned = NoReturn
  /\ dbOpen = FALSE
  /\ schema = FALSE
  /\ transactions = {}
  /\ categories = {}
  /\ seqTx = 0
  /\ seqCat = 0
  /\ lastSyncTime = NoTimestamp
  /\ now = 1
  /\ deleting = 0
  /\ remote = <<>>
  /\ history = NoHistory
  /\ InitCallsInit
  /\ InsightInit

\* getAllTransactions running while the user may log out
NextApi ==
  \/ ApiStep
  \/ TokenAwait
  \/ LogoutStep

SpecApi == InitApi /\ [][NextApi]_vars

\* getAllTransactions running on a device that stays logged in
NextFetch ==
  \/ ApiStep
  \/ TokenAwait

SpecFetch == InitApi /\ [][NextFetch]_vars

(***************************************************************************)
(* syncTransactions together with the getAllTransactions it awaits         *)
(* (syncService.ts 47): the fetch of the sync is the run of the API        *)
(* client, request by request, and the sync goes on with what the client   *)
(* returned or threw.                                                      *)
(***************************************************************************)
\* what the end of the awaited fetch leaves unchanged
besideFetch == <<dbOpen, transactions, categories, seqTx, seqCat,
                 lastSyncTime, now, deleting, remote, seen, authVars, api,
                 validated, pay, schema, initVars, insightVars>>

\* the records getAllTransactions returned, as the validation sees them:
\* as many records as were fetched, a batch being cut at MaxFetch, with
\* the fields the remote gave them
FetchedLists(fetched) ==
  {list \in FetchLists :
     Len(list) = IF Len(fetched) < MaxFetch THEN Len(fetched) ELSE MaxFetch}

\* the listings of a user who has one account at the bank, or none yet
OwnAccounts == {accounts \in AccountLists : Len(accounts) <= 1}

\* investecApi.getAllTransactions is called (47) and runs up to its end,
\* the bank free to report another totalPages on every page
AwaitGetAllTransactions(c) ==
  /\ calls[c].pc = "fetch"
  /\ apiResult.kind = "none"
  /\ \/ GetAllTransactions
     \/ AccountsHeaders
     \/ \E accounts \in OwnAccounts : AccountsReturn(accounts)
     \/ AccountsThrow
     \/ TransactionsHeaders
     \/ TokenAwait
     \/ /\ api.pc = "page"
        /\ \E meta \in PageMetas :
             \E page \in PageTransactions(api.accounts[api.i].accountId,
                                          api.currentPage) :
               PageResolves(page, meta)
     \/ PageThrow

\* a sync that calls getAllTransactions again whenever it has thrown
GetAllTransactionsRetried(c) ==
  /\ calls[c].pc = "fetch"
  /\ api.pc = "idle"
  /\ apiResult.kind # "none"
  /\ IF apiResult.kind = "returned"
     THEN \E list \in FetchedLists(apiResult.transactions) :
            FetchResolves(c, list)
     ELSE UNCHANGED <<isSyncing, calls, returned, history>>
  /\ apiResult' = NoApiResult
  /\ UNCHANGED besideFetch

\* getAllTransactions has ended: what it returned is validated (60-100) as
\* in FetchReturn, what it threw is caught (133-141) as in FetchThrow; the
\* result of the call is gone with it
GetAllTransactionsEnds(c) ==
  /\ calls[c].pc = "fetch"
  /\ api.pc = "idle"
  /\ apiResult.kind # "none"
  /\ IF apiResult.kind = "returned"
     THEN \E list \in FetchedLists(apiResult.transactions) :
            FetchResolves(c, list)
     ELSE Catch(c, apiResult.error[1])
  /\ apiResult' = NoApiResult
  /\ UNCHANGED besideFetch

\* syncTransactions is called: the first call of a session, and the calls
\* made while a sync runs
FirstSync(c) ==
  /\ isSyncing \/ returned.kind = "none"
  /\ SyncTransactions(c)

\* a step of caller c's syncTransactions, the fetch run by the API client
LinkedStep(c) ==
  \/ FirstSync(c)
  \/ InitReturn(c)
  \/ InitThrow(c)
  \/ AwaitGetAllTransactions(c)
  \/ GetAllTransactionsEnds(c)
  \/ InsertReturn(c)
  \/ InsertThrow(c)
  \/ \E t \in 1..MaxNow : CountReturn(c, t)
  \/ CountThrow(c)
  \/ SaveReturn(c)
  \/ SaveThrow(c)

\* a step of a call that is running: the return or the failure of the
\* external call it awaits
Progress(c) == calls[c].pc # "idle" /\ LinkedStep(c)

NextLinked == \E c \in SyncCalls : LinkedStep(c)

\* every external call a running sync awaits eventually returns or fails
SpecLinked ==
  /\ InitApi
  /\ [][NextLinked]_vars
  /\ \A c \in SyncCalls : WF_vars(Progress(c))

(***************************************************************************)
(* The validation of syncTransactions (syncService.ts 56-100) on its own,  *)
(* run on the records a fetch may deliver.                                 *)
(***************************************************************************)
\* how a required field of a raw record comes: undefined or null, falsy
\* ('' or 0), or with a value
Shapes ==
  { f \in [1..6 -> {"absent", "falsy", "value"}] :
      /\ Cardinality({i \in 1..6 : f[i] = "falsy"}) <= 1
      /\ Cardinality({i \in 1..6 : f[i] # "value"}) <= 2 }

StrField(shape, v) ==
  CASE shape = "absent" -> Absent
    [] shape = "falsy" -> Some("")
    [] shape = "value" -> Some(v)

NumField(shape, v) ==
  CASE shape = "absent" -> Absent
    [] shape = "falsy" -> Some(0)
    [] shape = "value" -> Some(v)

\* the raw records whose required fields come in every shape, their
\* optional fields being absent, and the complete records whose optional
\* fields are all set or all falsy
ReceivedRecords ==
  { [accountId |-> StrField(f[1], "acc1"), type |-> StrField(f[2], "DEBIT"),
     transactionType |-> Absent, status |-> StrField(f[3], "POSTED"),
     description |-> StrField(f[4], "coffee"), cardNumber |-> Absent,
     postedOrder |-> Absent, postingDate |-> Absent, valueDate |-> Absent,
     actionDate |-> Absent,
     transactionDate |-> StrField(f[5], "2025-01-01"),
     amount |-> NumField(f[6], 25), runningBalance |-> Absent]
    : f \in Shapes }
  \cup
  { [accountId |-> Some("acc1"), type |-> Some("DEBIT"),
     transactionType |-> StrField(o, "CardPurchases"),
     status |-> Some("POSTED"), description |-> Some("coffee"),
     cardNumber |-> StrField(o, "402167"), postedOrder |-> NumField(o, 3),
     postingDate |-> StrField(o, "2025-01-02"),
     valueDate |-> StrField(o, "2025-01-03"),
     actionDate |-> StrField(o, "2025-01-04"),
     transactionDate |-> Some("2025-01-01"), amount |-> Some(25),
     runningBalance |-> NumField(o, 100)]
    : o \in {"falsy", "value"} }

ReceivedLists == UNION { [1..n -> ReceivedRecords] : n \in 0..MaxRecords }

\* the forEach over the fetched records (60-100)
Validate ==
  /\ ~validated.ran
  /\ validated' = [ran |-> TRUE,
                   valid |-> ValidTransactions(remote, Len(remote)),
                   invalid |-> InvalidTransactions(remote, Len(remote))]
  /\ UNCHANGED besideValidated

InitValidate ==
  /\ remote \in ReceivedLists
  /\ isSyncing = FALSE
  /\ calls = [c \in SyncCalls |-> IdleCall]
  /\ returned = NoReturn
  /\ dbOpen = FALSE
  /\ schema = FALSE
  /\ transactions = {}
  /\ categories = {}
  /\ seqTx = 0
  /\ seqCat = 0
  /\ lastSyncTime = NoTimestamp
  /\ now = 1
  /\ deleting = 0
  /\ history = NoHistory
  /\ OthersInit

NextValidate == Validate

SpecValidate == InitValidate /\ [][NextValidate]_vars

(***************************************************************************)
(* Pay period (CategoriesScreen.tsx 679-708).  A Date is the number of its *)
(* day, day 0 being Sunday 1 January 2023; months count from 0 as in       *)
(* JavaScript.  today's time of day does not matter: salaryDate is a       *)
(* midnight, so today < salaryDate compares the days.                      *)
(***************************************************************************)
EpochYear == 2023

IsLeapYear(y) == (y % 4 = 0 /\ y % 100 # 0) \/ y % 400 = 0

DaysInMonth(y, m) ==
  IF m = 1 THEN (IF IsLeapYear(y) THEN 29 ELSE 28)
  ELSE IF m \in {3, 5, 8, 10} THEN 30 ELSE 31

RECURSIVE MonthStart(_, _)
\* the day before the first day of month m of year y
MonthStart(y, m) ==
  IF m = 0
  THEN (IF y = EpochYear THEN 0 - 1 ELSE MonthStart(y - 1, 11) + 31)
  ELSE MonthStart(y, m - 1) + DaysInMonth(y, m - 1)

\* new Date(y, m, d): day d of the month, running over into the months
\* around it when d is not a day of the month
NewDate(y, m, d) == MonthStart(y, m) + d

Years == EpochYear..(EpochYear + MaxYears + 1)

\* getFullYear, getMonth, getDate, getDay
GetFullYear(date) ==
  CHOOSE y \in Years : NewDate(y, 0, 1) <= date /\ date < NewDate(y + 1, 0, 1)

GetMonth(date) ==
  CHOOSE m \in 0..11 :
    LET y == GetFullYear(date)
    IN  NewDate(y, m, 1) <= date /\ date <= NewDate(y, m, DaysInMonth(y, m))

GetDate(date) == date - MonthStart(GetFullYear(date), GetMonth(date))

GetDay(date) == date % 7

\* date.setDate(d)
SetDate(date, d) == NewDate(GetFullYear(date), GetMonth(date), d)

\* a Saturday moves to payDay - 1, a Sunday to payDay - 2 (688-694)
AdjustWeekend(salaryDate, payDay) ==
  IF GetDay(salaryDate) = 6 THEN SetDate(salaryDate, payDay - 1)
  ELSE IF GetDay(salaryDate) = 0 THEN SetDate(salaryDate, payDay - 2)
  ELSE salaryDate

\* getLastSalaryDate(payDay), new Date() being today
GetLastSalaryDate(payDay, today) ==
  LET currentMonth == GetMonth(today)
      currentYear == GetFullYear(today)
      salaryDate ==
        AdjustWeekend(NewDate(currentYear, currentMonth, payDay), payDay)
      lastMonth == IF currentMonth = 0 THEN 11 ELSE currentMonth - 1
      lastMonthYear == IF currentMonth = 0 THEN currentYear - 1
                       ELSE currentYear
  IN  IF today < salaryDate
      THEN AdjustWeekend(NewDate(lastMonthYear, lastMonth, payDay), payDay)
      ELSE salaryDate

\* the days today may be
Todays ==
  NewDate(EpochYear + 1, 0, 1)..(NewDate(EpochYear + MaxYears + 1, 0, 1) - 1)

\* the screen computes the pay period's first day
LastSalaryDate ==
  /\ pay.salaryDate = 0
  /\ pay' = [pay EXCEPT
               !.salaryDate = GetLastSalaryDate(pay.payDay, pay.today)]
  /\ UNCHANGED besidePay

InitPay ==
  /\ pay \in [payDay : 1..31, today : Todays, salaryDate : {0}]
  /\ seen = NoRead
  /\ AuthInit
  /\ ApiInit
  /\ validated = NoValidation
  /\ isSyncing = FALSE
  /\ calls = [c \in SyncCalls |-> IdleCall]
  /\ returned = NoReturn
  /\ dbOpen = FALSE
  /\ schema = FALSE
  /\ transactions = {}
  /\ categories = {}
  /\ seqTx = 0
  /\ seqCat = 0
  /\ lastSyncTime = NoTimestamp
  /\ now = 1
  /\ deleting = 0
  /\ remote = <<>>
  /\ history = NoHistory
  /\ InitCallsInit
  /\ InsightInit

NextPay == LastSalaryDate

SpecPay == InitPay /\ [][NextPay]_vars

(***************************************************************************)
(* DatabaseService.init (database.ts 9-79), one action per await point,    *)
(* for two callers on the one DatabaseService, and the restart of the app  *)
(* on the database file it left.                                           *)
(***************************************************************************)
\* the store goes as it is into the next state
StoreKept == UNCHANGED <<transactions, categories, seqTx, seqCat, schema>>

\* what a step of init() leaves unchanged beside the store, the handle and
\* the callers
besideInit == <<isSyncing, calls, returned, lastSyncTime, now, deleting,
                remote, history, seen, authVars, apiVars, validated, pay,
                insightVars>>

\* INSERT OR REPLACE INTO categories: the row of the name is deleted and the
\* default row inserted under the next id
InsertOrReplaceCategory(cats, seq, d) ==
  [cats |-> {c \in cats : c.name # d.name} \cup
              {[id |-> seq + 1, name |-> d.name, color |-> d.color,
                icon |-> d.icon]},
   seq |-> seq + 1]

\* INSERT OR IGNORE INTO categories (name, color, icon) (72): name is
\* UNIQUE, so a row of that name keeps the statement from inserting
InsertOrIgnoreCategory(cats, seq, d) ==
  IF \E c \in cats : c.name = d.name
  THEN [cats |-> cats, seq |-> seq]
  ELSE [cats |-> cats \cup {[id |-> seq + 1, name |-> d.name,
                             color |-> d.color, icon |-> d.icon]},
        seq |-> seq + 1]

\* init() is called (9-12): it returns at once when this.db is set, else
\* openDatabaseAsync is awaited
InitCall(p) ==
  /\ initCalls[p].pc = "idle"
  /\ IF dbOpen
     THEN initCalls' = [initCalls EXCEPT ![p].pc = "resolved"]
     ELSE initCalls' = [initCalls EXCEPT ![p].pc = "open"]
  /\ StoreKept
  /\ UNCHANGED <<dbOpen, opened, operated, besideInit>>

\* await openDatabaseAsync resolves (12): this.db is set and the schema
\* statements are awaited (15)
OpenReturn(p) ==
  /\ initCalls[p].pc = "open"
  /\ dbOpen' = TRUE
  /\ opened' = opened + 1
  /\ initCalls' = [initCalls EXCEPT ![p].pc = "exec"]
  /\ StoreKept
  /\ UNCHANGED <<operated, besideInit>>

\* await openDatabaseAsync rejects: so does init()
OpenThrow(p) ==
  /\ initCalls[p].pc = "open"
  /\ initCalls' = [initCalls EXCEPT ![p] = NoInitCall]
  /\ StoreKept
  /\ UNCHANGED <<dbOpen, opened, operated, besideInit>>

\* await execAsync resolves (15-48): the tables and indexes exist;
\* insertDefaultCategories awaits its first statement (51, 69-71)
ExecReturn(p) ==
  /\ initCalls[p].pc = "exec"
  /\ schema' = TRUE
  /\ initCalls' = [initCalls EXCEPT ![p] = [@ EXCEPT !.pc = "insert",
                                                      !.idx = 1]]
  /\ UNCHANGED <<transactions, categories, seqTx, seqCat, dbOpen, opened,
                 operated, besideInit>>

\* await execAsync rejects: so does init(), this.db staying set
ExecThrow(p) ==
  /\ initCalls[p].pc = "exec"
  /\ initCalls' = [initCalls EXCEPT ![p] = NoInitCall]
  /\ StoreKept
  /\ UNCHANGED <<dbOpen, opened, operated, besideInit>>

\* the caller's position after the statement of the default at idx
AfterDefault(call, rejections) ==
  [pc |-> IF call.idx = Len(DefaultCategories) THEN "resolved" ELSE "insert",
   idx |-> call.idx + 1,
   rejected |-> call.rejected + rejections]

\* the INSERT OR IGNORE of the default at idx resolves (71-74); after the
\* last one init() resolves
DefaultReturn(p) ==
  /\ initCalls[p].pc = "insert"
  /\ LET r == InsertOrIgnoreCategory(categories, seqCat,
                                     DefaultCategories[initCalls[p].idx])
     IN  /\ categories' = r.cats
         /\ seqCat' = r.seq
  /\ initCalls' = [initCalls EXCEPT ![p] = AfterDefault(@, 0)]
  /\ UNCHANGED <<transactions, seqTx, schema, dbOpen, opened, operated,
                 besideInit>>

\* the INSERT OR IGNORE of the default at idx rejects: the catch logs it and
\* the loop goes on (75-77)
DefaultThrow(p) ==
  /\ initCalls[p].pc = "insert"
  /\ initCalls[p].rejected < MaxRejects
  /\ initCalls' = [initCalls EXCEPT ![p] = AfterDefault(@, 1)]
  /\ StoreKept
  /\ UNCHANGED <<dbOpen, opened, operated, besideInit>>

\* the caller whose init() resolved issues its next store operation
Operate(p) ==
  /\ initCalls[p].pc = "resolved"
  /\ operated' = [by |-> p, schema |-> schema,
                  names |-> {c.name : c \in categories}]
  /\ initCalls' = [initCalls EXCEPT ![p] = NoInitCall]
  /\ StoreKept
  /\ UNCHANGED <<dbOpen, opened, besideInit>>

\* the app is stopped and started again: the DatabaseService is new, the
\* database file is the one left behind
Restart ==
  /\ dbOpen' = FALSE
  /\ opened' = 0
  /\ initCalls' = [p \in InitCallers |-> NoInitCall]
  /\ operated' = NoOperation
  /\ StoreKept
  /\ UNCHANGED besideInit

InitStep(p) ==
  \/ InitCall(p)
  \/ OpenReturn(p)
  \/ OpenThrow(p)
  \/ ExecReturn(p)
  \/ ExecThrow(p)
  \/ DefaultReturn(p)
  \/ DefaultThrow(p)
  \/ Operate(p)

\* the categories a user has left in the file: a default deleted
\* (deleteCategory), the last default renamed and recoloured
\* (updateCategory), a category created (createCategory)
UserCategories(deleted, renamed, created) ==
  LET defaults == InsertDefaultCategories({}, 0, Len(DefaultCategories)).cats
      last == Len(DefaultCategories)
  IN  { IF renamed /\ c.id = last
        THEN [c EXCEPT !.name = "Misc", !.color = "#000000"]
        ELSE c : c \in {d \in defaults : d.id \notin deleted} }
      \cup
      (IF created
       THEN {[id |-> last + 1, name |-> "Travel", color |-> "#FFFFFF",
              icon |-> Absent]}
       ELSE {})

\* a device without database file, or with the file of an earlier run
InitInit ==
  /\ isSyncing = FALSE
  /\ calls = [c \in SyncCalls |-> IdleCall]
  /\ returned = NoReturn
  /\ dbOpen = FALSE
  /\ \/ /\ schema = FALSE
        /\ transactions = {}
        /\ categories = {}
        /\ seqTx = 0
        /\ seqCat = 0
     \/ /\ schema = TRUE
        /\ transactions =
             { Row([Sanitize(t) EXCEPT
                      !.categoryId = IsoIndex(t.transactionDate[1]) - 1],
                   IsoIndex(t.transactionDate[1]) - 1)
               : t \in StoredRecords }
        /\ seqTx = 2
        /\ \E deleted \in SUBSET (1..(MaxCategoryArg + 1)) :
             \E renamed, created \in BOOLEAN :
               /\ categories = UserCategories(deleted, renamed, created)
               /\ seqCat = Len(DefaultCategories) + (IF created THEN 1 ELSE 0)
  /\ lastSyncTime = NoTimestamp
  /\ now = 1
  /\ deleting = 0
  /\ remote = <<>>
  /\ history = NoHistory
  /\ seen = NoRead
  /\ AuthInit
  /\ ApiInit
  /\ validated = NoValidation
  /\ pay = NoPay
  /\ InitCallsInit
  /\ InsightInit

\* the startup initializing the store, again and again and over restarts
NextInit ==
  \/ InitStep("app")
  \/ Restart

SpecInit == InitInit /\ [][NextInit]_vars

\* the startup and a sync initializing the store of one run of the app
NextStartup == \E p \in InitCallers : InitStep(p)

SpecStartup == InitInit /\ [][NextStartup]_vars

(***************************************************************************)
(* OpenAIService.getFinancialContext (openaiService.ts 44-109): the        *)
(* monthly trend and the recent transactions, computed from the rows       *)
(* getTransactions returns in the order of its ORDER BY.                   *)
(***************************************************************************)
TrendMonths == 6

RecentLimit == 20

\* the months of the model as toLocaleDateString('en-ZA', {year: 'numeric',
\* month: 'short'}) renders them, oldest first
MonthKeys ==
  << "Jun 2024", "Jul 2024", "Aug 2024", "Sep 2024", "Oct 2024", "Nov 2024",
     "Dec 2024", "Jan 2025", "Feb 2025" >>

\* the transaction dates of the model, two a month, in the order SQLite
\* compares the ISO strings
ContextDates ==
  << "2024-06-10", "2024-06-20", "2024-07-10", "2024-07-20", "2024-08-10",
     "2024-08-20", "2024-09-10", "2024-09-20", "2024-10-10", "2024-10-20",
     "2024-11-10", "2024-11-20", "2024-12-10", "2024-12-20", "2025-01-10",
     "2025-01-20", "2025-02-10", "2025-02-20" >>

DateRank(d) == CHOOSE i \in 1..Len(ContextDates) : ContextDates[i] = d

\* new Date(d).toLocaleDateString('en-ZA', {year: 'numeric', month: 'short'})
ToLocaleMonth(d) == MonthKeys[(DateRank(d) + 1) \div 2]

\* String.prototype.toLowerCase on the types the bank sends
ToLowerCase(type) ==
  CASE type = "DEBIT" -> "debit"
    [] type = "CREDIT" -> "credit"
    [] OTHER -> type

\* t.type.toLowerCase() === 'debit'
IsDebit(t) == ToLowerCase(t.type) = "debit"

\* ORDER BY t.transaction_date DESC; rows of one date in the order the
\* engine happens to produce
RECURSIVE OrderByDateDesc(_)
OrderByDateDesc(rows) ==
  IF rows = {} THEN <<>>
  ELSE LET r == CHOOSE q \in rows :
                  \A o \in rows : DateRank(o.transactionDate)
                                    <= DateRank(q.transactionDate)
       IN  <<r>> \o OrderByDateDesc(rows \ {r})

\* Array.prototype.slice(-n) and slice(0, n)
SliceLast(seq, n) ==
  SubSeq(seq, IF Len(seq) > n THEN Len(seq) - n + 1 ELSE 1, Len(seq))

SliceFirst(seq, n) == SubSeq(seq, 1, IF Len(seq) > n THEN n ELSE Len(seq))

\* monthlyBreakdown after the forEach over the first n transactions (78-84),
\* as Object.entries lists it: an entry per month key, in the order the keys
\* were first assigned
RECURSIVE MonthlyBreakdown(_, _)
MonthlyBreakdown(allTransactions, n) ==
  IF n = 0 THEN <<>>
  ELSE LET before == MonthlyBreakdown(allTransactions, n - 1)
           t == allTransactions[n]
           month == ToLocaleMonth(t.transactionDate)
       IN  IF ~IsDebit(t) THEN before
           ELSE IF \E i \in 1..Len(before) : before[i].month = month
           THEN [i \in 1..Len(before) |->
                   IF before[i].month = month
                   THEN [before[i] EXCEPT !.total = @ + t.amount]
                   ELSE before[i]]
           ELSE Append(before, [month |-> month, total |-> 0 + t.amount])

\* monthlyTrend (86-89), before it is formatted
MonthlyTrend(allTransactions) ==
  SliceLast(MonthlyBreakdown(allTransactions, Len(allTransactions)),
            TrendMonths)

\* recentTransactions (105-109), before it is formatted
RecentTransactions(allTransactions) ==
  SliceFirst(SelectSeq(allTransactions, IsDebit), RecentLimit)

\* what getFinancialContext leaves unchanged
besideContext == <<syncVars, seen, authVars, apiVars, validated, pay, schema,
                   initVars, nudges>>

\* getFinancialContext runs on the store
GetFinancialContext ==
  /\ dbOpen
  /\ LET allTransactions ==
           OrderByDateDesc(GetTransactions(transactions, categories))
     IN  context' = [ran |-> TRUE,
                     monthlyTrend |-> MonthlyTrend(allTransactions),
                     recentTransactions |->
                       RecentTransactions(allTransactions)]
  /\ UNCHANGED besideContext

\* the record the bank sends for a transaction of the given type, date and
\* amount
ContextRecord(type, date, amount) ==
  [accountId |-> Some("acc1"), type |-> Some(type),
   transactionType |-> Some("CardPurchases"), status |-> Some("POSTED"),
   description |-> Some("coffee"), cardNumber |-> Absent,
   postedOrder |-> Absent, postingDate |-> Absent, valueDate |-> Absent,
   actionDate |-> Absent, transactionDate |-> Some(date),
   amount |-> Some(amount), runningBalance |-> Absent]

\* what a month holds: nothing, a debit, a credit, or two debits
MonthShapes == {"none", "debit", "credit", "two"}

\* the rows of month m of the given shape, under the ids 2m-1 and 2m
MonthRows(m, shape) ==
  LET first == ContextDates[2 * m - 1]
      second == ContextDates[2 * m]
  IN  CASE shape = "none" -> {}
        [] shape = "debit" ->
             {Row(Sanitize(ContextRecord("DEBIT", first, 100 * m)),
                  2 * m - 1)}
        [] shape = "credit" ->
             {Row(Sanitize(ContextRecord("CREDIT", first, 100 * m)),
                  2 * m - 1)}
        [] shape = "two" ->
             {Row(Sanitize(ContextRecord("DEBIT", first, 100 * m)),
                  2 * m - 1),
              Row(Sanitize(ContextRecord("DEBIT", second, 50)), 2 * m)}

\* an open store that holds, for each of the last MaxMonths months, the rows
\* of some shape
InitContext ==
  /\ \E shape \in [1..MaxMonths -> MonthShapes] :
       transactions = UNION {MonthRows(m, shape[m]) : m \in 1..MaxMonths}
  /\ seqTx = 2 * MaxMonths
  /\ categories = InsertDefaultCategories({}, 0, Len(DefaultCategories)).cats
  /\ seqCat = Len(DefaultCategories)
  /\ dbOpen = TRUE
  /\ schema = TRUE
  /\ isSyncing = FALSE
  /\ calls = [c \in SyncCalls |-> IdleCall]
  /\ returned = NoReturn
  /\ lastSyncTime = 1
  /\ now = 1
  /\ deleting = 0
  /\ remote = <<>>
  /\ history = NoHistory
  /\ OthersInit

NextContext == GetFinancialContext

SpecContext == InitContext /\ [][NextContext]_vars

(***************************************************************************)
(* NudgeService.generateNudges (nudgeService.ts 28-141).  A day is a day   *)
(* number as in the pay period; new Date(isoDate) is the midnight that     *)
(* begins the day.                                                         *)
(***************************************************************************)
HighSpending == 500

TopCategorySpending == 1000

\* new Date(d) for a transaction date of the model, as a day number
ParseDate(d) ==
  LET i == DateRank(d)
      month == 5 + ((i + 1) \div 2) - 1
  IN  NewDate(EpochYear + 1 + (month \div 12), month % 12,
              IF i % 2 = 1 THEN 10 ELSE 20)

\* new Date(t.transactionDate) >= thirtyDaysAgo, thirtyDaysAgo being today
\* with setDate(getDate() - 30) (34-38): the time of day of now, thirty days
\* back; at midnight says that now is the very start of today
IsRecent(t, today, midnight) ==
  LET thirtyDaysAgo == SetDate(today, GetDate(today) - 30)
  IN  IF midnight THEN ParseDate(t.transactionDate) >= thirtyDaysAgo
      ELSE ParseDate(t.transactionDate) > thirtyDaysAgo

\* filter(t => t.amount < 0).reduce((sum, t) => sum + Math.abs(t.amount), 0)
RECURSIVE TotalSpending(_)
TotalSpending(rows) ==
  IF rows = {} THEN 0
  ELSE LET r == CHOOSE q \in rows : TRUE
       IN  (IF r.amount < 0 THEN 0 - r.amount ELSE 0)
             + TotalSpending(rows \ {r})

Abs(n) == IF n < 0 THEN 0 - n ELSE n

\* categoryTotals.filter(c => c.total < 0).sort(...)[0] (88-90): the
\* negative totals with the largest absolute value, none when no total is
\* negative
TopCategory(categoryTotals) ==
  LET negative == {c \in categoryTotals : c.total < 0}
  IN  {c \in negative : \A o \in negative : Abs(o.total) <= Abs(c.total)}

\* the ids of the nudges generateNudges returns for the recent transactions
\* and the category totals; ai says that the AI nudge was generated
NudgeIds(recentTransactions, categoryTotals, ai) ==
  LET totalSpending == TotalSpending(recentTransactions)
      uncategorized ==
        {t \in recentTransactions : t.categoryId = NullCategory}
      topCategory == TopCategory(categoryTotals)
      found ==
        (IF Cardinality(uncategorized) > 5 THEN <<"uncategorized">> ELSE <<>>)
        \o (IF totalSpending > HighSpending * 30
            THEN <<"high-spending">> ELSE <<>>)
        \o (IF \E c \in topCategory : Abs(c.total) > TopCategorySpending
            THEN <<"top-category">> ELSE <<>>)
        \o (IF ai /\ Cardinality(recentTransactions) > 10
            THEN <<"ai-insight">> ELSE <<>>)
  IN  IF found = <<>> THEN <<"positive">> ELSE found

\* what generateNudges leaves unchanged
besideNudges == <<syncVars, seen, authVars, apiVars, validated, pay, schema,
                  initVars, context>>

\* generateNudges runs on the store
GenerateNudges(ai) ==
  /\ dbOpen
  /\ ~nudges.ran
  /\ LET allTransactions == GetTransactions(transactions, categories)
         recentTransactions ==
           {t \in allTransactions :
              IsRecent(t, nudges.today, nudges.midnight)}
     IN  nudges' =
           [nudges EXCEPT
              !.ran = TRUE,
              !.totalSpending = TotalSpending(recentTransactions),
              !.ids =
                IF recentTransactions = {} THEN <<"no-data">>
                ELSE NudgeIds(recentTransactions,
                              GetCategoryTotals(categories, transactions,
                                                Absent, Absent),
                              ai)]
  /\ UNCHANGED besideNudges

\* a read of the store rejects: the catch returns the 'error' nudge
\* (128-140)
GenerateNudgesThrow ==
  /\ ~nudges.ran
  /\ nudges' = [nudges EXCEPT !.ran = TRUE, !.ids = <<"error">>]
  /\ UNCHANGED besideNudges

\* the amounts, dates and categories of the stored rows
NudgeAmounts == {1200, 16000, 0 - 16000}

NudgeDates == {"2024-06-10", "2025-01-20", "2025-02-10"}

\* the days generateNudges may run on: 19 and 25 February 2025
NudgeDays == {NewDate(EpochYear + 2, 1, 19), NewDate(EpochYear + 2, 1, 25)}

\* the row slot n holds: none, or a row of some type, amount, date and
\* category, each slot with a description of its own
SlotRows(n) ==
  {{}} \cup
  { {Row([Sanitize(ContextRecord(type, date, amount)) EXCEPT
            !.description = "purchase" \o ToString(n),
            !.categoryId = cat], n)}
    : type \in {"DEBIT", "CREDIT"}, amount \in NudgeAmounts,
      date \in NudgeDates, cat \in 0..1 }

InitNudges ==
  /\ \E slot \in [1..MaxStored ->
                     UNION {SlotRows(n) : n \in 1..MaxStored}] :
       /\ \A n \in 1..MaxStored : slot[n] \in SlotRows(n)
       /\ transactions = UNION {slot[n] : n \in 1..MaxStored}
  /\ seqTx = MaxStored
  /\ categories = InsertDefaultCategories({}, 0, Len(DefaultCategories)).cats
  /\ seqCat = Len(DefaultCategories)
  /\ dbOpen = TRUE
  /\ schema = TRUE
  /\ nudges \in [ran : {FALSE}, today : NudgeDays, midnight : BOOLEAN,
                 totalSpending : {0}, ids : {<<>>}]
  /\ context = NoContext
  /\ InitCallsInit
  /\ seen = NoRead
  /\ AuthInit
  /\ ApiInit
  /\ validated = NoValidation
  /\ pay = NoPay
  /\ isSyncing = FALSE
  /\ calls = [c \in SyncCalls |-> IdleCall]
  /\ returned = NoReturn
  /\ lastSyncTime = 1
  /\ now = 1
  /\ deleting = 0
  /\ remote = <<>>
  /\ history = NoHistory

NextNudges ==
  \/ \E ai \in BOOLEAN : GenerateNudges(ai)
  \/ GenerateNudgesThrow

SpecNudges == InitNudges /\ [][NextNudges]_vars

(***************************************************************************)
(* Properties.                                                             *)
(***************************************************************************)
Running(c) == calls[c].pc # "idle"

\* the store and the secure-store entry a sync run writes
StoreUnchanged ==
  UNCHANGED <<dbOpen, transactions, categories, seqTx, seqCat, lastSyncTime>>

\* the fetch results of N >= 1 records that all miss a required field
AllInvalidLists ==
  UNION { [1..n -> {r \in RawRecords : MissingFields(r) # <<>>}]
          : n \in 1..MaxFetch }

\* C1 - single-flight sync: at most one call is Running, and a call made
\* while another is Running returns in that very step with success=false
\* and "Sync already in progress", leaving the store, the sequences and the
\* last-sync timestamp untouched.
C1_SingleFlight ==
  /\ [](\A c, d \in SyncCalls : Running(c) /\ Running(d) => c = d)
  /\ [][\A c \in SyncCalls :
          (SyncTransactions(c) /\ \E d \in SyncCalls \ {c} : Running(d))
            => /\ ~Running(c)'
               /\ returned'.kind = "returned"
               /\ returned'.outcome.success = FALSE
               /\ returned'.outcome.error = "Sync already in progress"
               /\ StoreUnchanged]_vars

\* a call has been rejected while the other one is still Running
C1_Witness ==
  /\ \E c \in SyncCalls : Running(c)
  /\ isSyncing
  /\ returned.kind = "returned"
  /\ returned.outcome = Rejected

\* C2 - guaranteed release: a call that entered Running leaves the flag
\* clear when it ends, however it ends, and the flag is never set without a
\* call that is Running.
C2_GuaranteedRelease ==
  /\ [][\A c \in SyncCalls :
          (Running(c) /\ ~Running(c)') => isSyncing' = FALSE]_vars
  /\ [](isSyncing => \E c \in SyncCalls : Running(c))

\* a run has ended in the catch block and the orchestrator is Idle
C2_Witness ==
  /\ returned.kind = "returned"
  /\ returned.thrown = {Error("save failed")}
  /\ ~isSyncing
  /\ \A c \in SyncCalls : ~Running(c)

\* C3 - syncTransactions never raises: a call in which init, the fetch, an
\* insert, the count or the timestamp save threw ends by returning an
\* outcome with success=false whose error is the thrown message.
C3_NeverRaises ==
  /\ returned.kind # "raised"
  /\ \A e \in returned.thrown :
       /\ returned.kind = "returned"
       /\ returned.outcome.success = FALSE
       /\ returned.outcome.error = e.message

\* the account listing failed and the call returned that failure
C3_Witness ==
  /\ returned.thrown = {Error("Failed to fetch accounts")}
  /\ returned.outcome.error = "Failed to fetch accounts"

\* C4 - idempotent sync: with the remote data fixed, a successful run that
\* follows a successful run leaves the store with the row count the first
\* one left, and reports that count.
C4_IdempotentSync ==
  [][\A c \in SyncCalls :
       (SaveReturn(c) /\ history.streak >= 1)
         => /\ Cardinality(transactions') = history.total
            /\ returned'.outcome.totalTransactions = history.total]_vars

\* two successful runs in a row over two distinct valid records
C4_Witness ==
  /\ history.streak = 2
  /\ history.total = 2
  /\ Cardinality(transactions) = 2
  /\ seqTx >= 4

\* the sync-supplied fields outside the key
SameSyncFields(r, t) ==
  /\ r.type = t.type
  /\ r.transactionType = t.transactionType
  /\ r.status = t.status
  /\ r.cardNumber = t.cardNumber
  /\ r.postedOrder = t.postedOrder
  /\ r.postingDate = t.postingDate
  /\ r.valueDate = t.valueDate
  /\ r.actionDate = t.actionDate
  /\ r.runningBalance = t.runningBalance

\* C5 - de-duplication: no two rows share (accountId, transactionDate,
\* amount, description), and after every upsert exactly one row has the
\* upserted record's key and carries that record's sync-supplied fields.
C5_Deduplication ==
  /\ [](\A r1, r2 \in transactions : SameKey(r1, r2) => r1 = r2)
  /\ [][\A c \in SyncCalls :
          (InsertReturn(c) /\ calls[c].idx <= Len(calls[c].valid))
            => LET t == calls[c].valid[calls[c].idx]
                   same == {r \in transactions' : SameKey(r, t)}
               IN  /\ Cardinality(same) = 1
                   /\ \A r \in same : SameSyncFields(r, t)]_vars

\* a pending record was upserted over the stored posted one, or the other
\* way round: one row, under the second id
C5_Witness ==
  /\ Cardinality(transactions) = 1
  /\ seqTx = 2
  /\ \E r \in transactions : r.id = 2 /\ r.status = "PENDING"

\* C6 - a stored transaction's category changes only by
\* updateTransactionCategory or deleteCategory; a sync that fetches it again
\* keeps its categoryId.
C6_CategoryOnlyByUser ==
  [][\/ \A r \in transactions : \A r2 \in transactions' :
          SameKey(r, r2) => r2.categoryId = r.categoryId
     \/ \E r \in transactions : \E cid \in ListedCategories :
          UpdateTransactionCategory(r.id, cid)
     \/ \E id \in ListedCategories : DeleteCategoryNullRefs(id)]_vars

\* C7 - an upsert on a stored key resolves to the same row: the row keeps
\* its id, so getTransactionById of the id still finds the transaction.
C7_UpsertKeepsId ==
  [][\A c \in SyncCalls :
       InsertReturn(c)
         => \A r \in transactions : \A r2 \in transactions' :
              SameKey(r, r2)
                => /\ r2.id = r.id
                   /\ GetTransactionById(transactions', r.id) # {}]_vars

\* C8 - a run ends with the "no valid transactions" outcome only when at
\* least one fetched record was invalid; a fetch without records succeeds.
C8_NoValidNeedsInvalid ==
  [][\A c \in SyncCalls :
       (FetchReturn(c, <<>>) /\ ~Running(c)')
         => returned'.outcome.error # NoValidError(0)]_vars

\* C9 - all-invalid batch: a fetch of N >= 1 records that all miss a
\* required field ends the run with success=false and the error reporting
\* N; no row, sequence or last-sync timestamp changes.
C9_AllInvalidFails ==
  [][\A c \in SyncCalls :
       (calls[c].pc = "fetch" /\ calls'[c].pc # "fetch")
         => \A list \in AllInvalidLists :
              FetchReturn(c, list)
                => /\ ~Running(c)'
                   /\ returned'.kind = "returned"
                   /\ returned'.outcome.success = FALSE
                   /\ returned'.outcome.error = NoValidError(Len(list))
                   /\ StoreUnchanged]_vars

\* after an earlier successful sync, a batch of two invalid records failed
C9_Witness ==
  /\ returned.kind = "returned"
  /\ returned.outcome = NoValid(2)
  /\ lastSyncTime # NoTimestamp
  /\ transactions # {}

\* C10 - a failing row is skipped: a rejected insertTransaction does not end
\* the batch, the call goes on with the rows after it.
C10_BatchContinues ==
  [][\A c \in SyncCalls :
       calls[c].pc = "insert" => calls'[c].pc \in {"insert", "count"}]_vars

\* C11 - deleteCategory is atomic for readers: whatever read runs at an
\* await point of deleteCategory(C), no transaction it returns carries a
\* categoryId whose category the same read found absent from the categories
\* table (the join gave it no category name).
C11_NoDanglingRead ==
  \A r \in seen.transactions :
    r.categoryId # NullCategory => r.categoryName # Absent

\* a read ran between the two statements of deleteCategory and returned a
\* transaction that deleteCategory had just uncategorized
C11_Witness ==
  /\ seen.gap # 0
  /\ seen.op \in {"getTransactions", "getTransactionById"}
  /\ \E r \in seen.transactions : r.categoryId = NullCategory
  /\ \A r \in seen.transactions : r.categoryId # seen.gap
  /\ \E c \in categories : c.id = seen.gap

\* the windows a caller of getCategoryTotals may pass
AnyTotals(cats, rows) ==
  UNION { GetCategoryTotals(cats, rows, startDate, endDate)
          : <<startDate, endDate>> \in WindowDates \X WindowDates }

\* C12 - deleteCategory uncategorizes, never deletes: when deleteCategory(C)
\* runs with nothing but reads in between, its first statement sets
\* categoryId to null on exactly the transactions that referenced C and
\* leaves every other row as it was, its second statement touches no
\* transaction, no row is removed by either, and once it has completed C
\* has no entry in getCategoryTotals, whatever the window.
C12_DeleteUncategorizes ==
  /\ [][(deleting = 0 /\ deleting' # 0) =>
          /\ {r.id : r \in transactions'} = {r.id : r \in transactions}
          /\ Cardinality(transactions') = Cardinality(transactions)
          /\ \A r \in transactions :
               IF r.categoryId = deleting'
               THEN [r EXCEPT !.categoryId = NullCategory] \in transactions'
               ELSE r \in transactions']_vars
  /\ [][(deleting # 0 /\ deleting' = 0) =>
          /\ transactions' = transactions
          /\ \A r \in transactions' : r.categoryId # deleting
          /\ \A c \in categories' : c.id # deleting
          /\ \A e \in AnyTotals(categories', transactions') :
               e.categoryId # deleting]_vars
  /\ [][deleting' = deleting => transactions' = transactions]_vars

\* deleteCategory(1) has completed: both rows are still there, one of them
\* uncategorized, the other still in category 2, and getCategoryTotals has
\* answered without an entry for category 1
C12_Witness ==
  /\ deleting = 0
  /\ \A c \in categories : c.id # 1
  /\ Cardinality(transactions) = 2
  /\ \E r \in transactions : r.categoryId = NullCategory
  /\ \E r \in transactions : r.categoryId = 2
  /\ seen.op = "getCategoryTotals"
  /\ seen.totals # {}
  /\ \A e \in seen.totals : e.categoryId # 1

\* the cache decides in this step
CacheDecides == tokenCall.pc = "getExpiry" /\ tokenCall'.pc # "getExpiry"

\* the step returns the stored token
CacheHit ==
  /\ tokenCall'.pc = "idle"
  /\ tokenResult'.kind = "token"
  /\ tokenResult'.token = secure.token

\* C13 - token expiry buffer: when the cache decides at time clock on a
\* stored token whose expiry is expiryTime, it returns the stored token
\* exactly when clock < expiryTime - 300 s and otherwise answers null, which
\* sends getAccessToken on to the credential exchange; a token expiring in
\* 290 s or in exactly 300 s is invalid, one expiring in 301 s is valid.
C13_ExpiryBuffer ==
  [][CacheDecides =>
       /\ CacheHit <=> clock < expiryTime - 300 * 1000
       /\ ~CacheHit <=> tokenCall'.pc = "getCredentials"
       /\ expiryTime = clock + 290 * 1000 => ~CacheHit
       /\ expiryTime = clock + 300 * 1000 => ~CacheHit
       /\ expiryTime = clock + 301 * 1000 => CacheHit]_vars

\* the cache has returned a token that expires 300 s and 1 ms from now
C13_Witness ==
  /\ tokenResult.kind = "token"
  /\ tokenResult.token = secure.token
  /\ expiryTime = clock + 300 * 1000 + 1
  /\ clock > 0

\* C14 - authentication failures propagate: a getAllTransactions run in
\* which a token request - for the account listing or for the transactions
\* of an account - found no valid cached token and no credentials ends by
\* throwing that "not authenticated" error, so that the sync that awaits
\* it returns a Failed outcome carrying the error's message.
C14_AuthFailurePropagates ==
  apiResult.notAuthenticated =>
    /\ apiResult.kind = "thrown"
    /\ apiResult.error = Some(NotAuthenticated)
    /\ CatchOutcome(apiResult.error[1]).error
         = "No credentials stored. Please login first."

\* C15 - logout clears both: once logout() has completed, and until a
\* login() runs, the secure store holds neither credentials nor a cached
\* token and no getAccessToken() call returns a token - also when a
\* getAccessToken() refresh was awaiting the credential exchange while
\* logout ran.
C15_LogoutClears ==
  /\ [](loggedOut => secure.credentials = Absent /\ secure.token = Absent)
  /\ [][(loggedOut /\ tokenCall.pc # "idle" /\ tokenCall'.pc = "idle")
          => tokenResult'.kind # "token"]_vars

\* the getTransactions calls that have ended
EndedCalls ==
  {api.log[k] : k \in 1..Len(api.log)}
    \cup {apiResult.log[k] : k \in 1..Len(apiResult.log)}

\* C16 - pagination is exhaustive and ordered: a getTransactions call whose
\* responses all report the same totalPages = N >= 1 requests the pages
\* 1..N in this order, exactly N of them when it returns, and returns the
\* transactions of the responses concatenated in request order; a call
\* whose responses carry no totalPages (absent or 0) issues one request.
C16_Pagination ==
  \A e \in EndedCalls :
    /\ \A n \in 1..(MaxPages + 1) :
         e.metas = {Some(n)} =>
           /\ Len(e.requests) <= n
           /\ \A k \in 1..Len(e.requests) : e.requests[k] = k
           /\ e.result # Absent =>
                /\ Len(e.requests) = n
                /\ Len(e.pages) = n
                /\ e.result[1] = Flatten(e.pages)
    /\ (e.metas # {} /\ e.metas \subseteq {Absent, Some(0)}) =>
         /\ e.requests = <<1>>
         /\ e.result # Absent => e.result[1] = Flatten(e.pages)

\* a call has returned the records of two pages, both responses having
\* reported totalPages = 2
C16_Witness ==
  \E e \in EndedCalls :
    /\ e.metas = {Some(2)}
    /\ e.requests = <<1, 2>>
    /\ e.result # Absent
    /\ Len(e.result[1]) = 2
    /\ e.result[1][1].description = Some("page 1")
    /\ e.result[1][2].description = Some("page 2")

\* the transactions of the calls of log that returned, in the order of log
RECURSIVE Fetched(_)
Fetched(log) ==
  IF log = <<>> THEN <<>>
  ELSE LET e == log[Len(log)]
       IN  Fetched(SubSeq(log, 1, Len(log) - 1))
             \o (IF e.result = Absent THEN <<>> ELSE e.result[1])

RequiredStrings ==
  <<"accountId", "type", "status", "description", "transactionDate">>

\* the required fields of raw record t, in the order of the check, that
\* are undefined or null
AbsentFields(t) ==
  SelectSeq(RequiredStrings \o <<"amount">>, LAMBDA n : t[n] = Absent)

\* those that are undefined, null or, for the strings, empty
AbsentOrEmptyFields(t) ==
  SelectSeq(RequiredStrings \o <<"amount">>,
            LAMBDA n : t[n] = Absent \/ (n # "amount" /\ t[n] = Some("")))

\* the value stored for optional field f
Stored(f, default) == IF f = Absent THEN default ELSE f[1]

\* what an accepted record t is stored as: every field a string or a
\* number, categoryId aside
StoredAs(t, v) ==
  /\ v.accountId = t.accountId[1]
  /\ v.type = t.type[1]
  /\ v.status = t.status[1]
  /\ v.description = t.description[1]
  /\ v.transactionDate = t.transactionDate[1]
  /\ v.amount = t.amount[1]
  /\ t.transactionType = Absent => v.transactionType = "Other"
  /\ t.transactionType \notin {Absent, Some("")} =>
       v.transactionType = t.transactionType[1]
  /\ v.cardNumber = Stored(t.cardNumber, "")
  /\ v.postedOrder = Stored(t.postedOrder, 0)
  /\ v.postingDate = Stored(t.postingDate, "")
  /\ v.valueDate = Stored(t.valueDate, "")
  /\ v.actionDate = Stored(t.actionDate, "")
  /\ v.runningBalance = Stored(t.runningBalance, 0)
  /\ v.categoryId = NullCategory

\* the validation has accepted the records of remote with no field in
\* Missing(_) and rejected the others under their index and these fields
Normalized(Missing(_)) ==
  LET accepted == {k \in 1..Len(remote) : Missing(remote[k]) = <<>>}
      rejected == (1..Len(remote)) \ accepted
  IN  /\ Len(validated.valid) = Cardinality(accepted)
      /\ Len(validated.invalid) = Cardinality(rejected)
      /\ \A k \in accepted :
           StoredAs(remote[k],
                    validated.valid[Cardinality({i \in accepted : i <= k})])
      /\ \A k \in rejected :
           validated.invalid[Cardinality({i \in rejected : i <= k})]
             = [index |-> k - 1, missingFields |-> Missing(remote[k])]

\* C18 as stated - normalization defaults: a record is accepted exactly
\* when accountId, type, status, description and transactionDate are
\* present and amount is neither undefined nor null; a rejected record is
\* recorded with its index and exactly its missing fields; an accepted one
\* is stored with "Other" for an absent transactionType and '' or 0 for
\* the absent optional fields.
C18_AcceptedWhenPresent == validated.ran => Normalized(AbsentFields)

\* C18 - normalization defaults: a record is accepted exactly when
\* accountId, type, status, description and transactionDate are present
\* and not the empty string and amount is neither undefined nor null (0 is
\* accepted); a rejected record is recorded with its index in the fetched
\* list and the list of exactly its missing or empty fields; an accepted
\* record is stored with "Other" for an absent transactionType and with ''
\* or 0 for absent cardNumber, postedOrder, posting/value/action date and
\* runningBalance, so that no null or undefined reaches the store.
C18_Normalization == validated.ran => Normalized(AbsentOrEmptyFields)

\* of two records the first has been rejected for its missing description
\* and amount, the second accepted with amount 0 and stored as "Other"
C18_Witness ==
  /\ validated.ran
  /\ Len(remote) = 2
  /\ validated.invalid =
       <<[index |-> 0, missingFields |-> <<"description", "amount">>]>>
  /\ Len(validated.valid) = 1
  /\ remote[2].amount = Some(0)
  /\ validated.valid[1].amount = 0
  /\ validated.valid[1].transactionType = "Other"
  /\ validated.valid[1].cardNumber = ""

\* C19 - category totals include zero-activity categories: whether or not
\* a date window is given, the result of getCategoryTotals has exactly one
\* entry per category of the categories table, and the entry of a category
\* without any transaction has total 0 and count 0.
C19_TotalsCoverCategories ==
  [][(seen' # seen /\ seen'.op = "getCategoryTotals") =>
       /\ \A c \in categories :
            Cardinality({e \in seen'.totals : e.categoryId = c.id}) = 1
       /\ \A e \in seen'.totals :
            /\ \E c \in categories : c.id = e.categoryId
            /\ (\A r \in transactions : r.categoryId # e.categoryId)
                 => e.total = 0 /\ e.count = 0]_vars

\* the pay day of month m of year y moved to the Friday before a weekend
PayDate(y, m, payDay) ==
  LET d == NewDate(y, m, payDay)
  IN  IF d % 7 = 6 THEN d - 1 ELSE IF d % 7 = 0 THEN d - 2 ELSE d

\* the pay date that counts on day today: this month's, or last month's
\* when today precedes this month's
LastPayDate(payDay, today) ==
  LET y == GetFullYear(today)
      m == GetMonth(today)
      lastMonth == IF m = 0 THEN PayDate(y - 1, 11, payDay)
                   ELSE PayDate(y, m - 1, payDay)
  IN  IF today < PayDate(y, m, payDay) THEN lastMonth
      ELSE PayDate(y, m, payDay)

\* C20 - pay-period window start: for every pay day 1..31 and every today,
\* getLastSalaryDate returns a date that is not after today and not a
\* Saturday or Sunday; it is this month's pay date (the pay day moved to
\* the preceding Friday when it falls on a weekend) or, when today
\* precedes that, last month's pay date.
C20_LastSalaryDate ==
  pay.salaryDate # 0 =>
    /\ pay.salaryDate <= pay.today
    /\ pay.salaryDate % 7 \notin {0, 6}
    /\ pay.payDay <= 28 =>
         pay.salaryDate = LastPayDate(pay.payDay, pay.today)

\* the names of the nine default categories
DefaultNames == {DefaultCategories[i].name : i \in 1..Len(DefaultCategories)}

\* init() of caller p resolves in this step after its last default insert
InitResolves(p) ==
  initCalls[p].pc = "insert" /\ initCalls'[p].pc = "resolved"

\* init() of caller p is called in this step with this.db set
InitRepeated(p) ==
  initCalls[p].pc = "idle" /\ initCalls'[p].pc # "idle" /\ dbOpen

C27_ResolvedInitIsReady ==
  /\ \A p \in InitCallers :
       initCalls[p].pc = "resolved" =>
         /\ schema
         /\ DefaultNames \subseteq {c.name : c \in categories}
  /\ operated.by # "none" =>
       /\ operated.schema
       /\ DefaultNames \subseteq operated.names
  /\ opened <= 1

\* C22 - no implicit rollback: when the insert of row k of a batch is
\* rejected, the store is left as it is, each of the rows 1..k-1 is in it
\* under its key, with the fields it was upserted with unless a later row of
\* the batch had the same key, and the run returns a Failed outcome without
\* touching the last-sync timestamp.
C22_NoRollback ==
  [][\A c \in SyncCalls :
       (calls[c].pc = "insert" /\ ~Running(c)')
         => LET valid == calls[c].valid
                k == calls[c].idx
            IN  /\ transactions' = transactions
                /\ \A j \in 1..(k - 1) :
                     \E r \in transactions' :
                       /\ SameKey(r, valid[j])
                       /\ (\A i \in (j + 1)..(k - 1) :
                             ~SameKey(valid[i], valid[j]))
                            => SameSyncFields(r, valid[j])
                /\ returned'.kind = "returned"
                /\ returned'.outcome = CatchOutcome(Error("insert failed"))
                /\ returned'.outcome.success = FALSE
                /\ lastSyncTime' = lastSyncTime]_vars

\* the first run failed at the second row of its batch: the first row is
\* in the store and no sync time has been saved
C22_Witness ==
  /\ returned.kind = "returned"
  /\ returned.outcome = CatchOutcome(Error("insert failed"))
  /\ seqTx = 1
  /\ Cardinality(transactions) = 1
  /\ lastSyncTime = NoTimestamp
  /\ \A c \in SyncCalls : ~Running(c)

\* C23 - every outcome syncTransactions returns, of a run that succeeded,
\* failed or was rejected, reports as totalTransactions the number of rows
\* in the store after the run and as newTransactions the number of records
\* the run accepted.
C23_OutcomeCounts ==
  [][\A c \in SyncCalls :
       (calls'[c] # calls[c] /\ ~Running(c)')
         => /\ returned'.kind = "returned"
            /\ returned'.outcome.totalTransactions =
                 GetTotalTransactions(transactions')
            /\ returned'.outcome.newTransactions = Len(calls[c].valid)]_vars

\* the months that have debit transactions
DebitMonths ==
  {ToLocaleMonth(r.transactionDate) : r \in {q \in transactions : IsDebit(q)}}

MonthRank(m) == CHOOSE i \in 1..Len(MonthKeys) : MonthKeys[i] = m

\* the n latest of the months in months
LatestMonths(months, n) ==
  {m \in months :
     Cardinality({o \in months : MonthRank(o) > MonthRank(m)}) < n}

\* the n debits with the latest transaction dates
LatestDebits(n) ==
  LET debits == {q \in transactions : IsDebit(q)}
  IN  {r \in debits :
         Cardinality({o \in debits : DateRank(o.transactionDate)
                                       > DateRank(r.transactionDate)}) < n}

\* C24 - insight context: the monthly trend lists the debit totals of the
\* six most recent months that have debit transactions, and the recent
\* transactions are at most 20, all debits, the 20 with the latest
\* transaction dates, latest first.
C24_InsightContext ==
  context.ran =>
    LET trend == context.monthlyTrend
        recent == context.recentTransactions
    IN  /\ {trend[i].month : i \in 1..Len(trend)}
             = LatestMonths(DebitMonths, TrendMonths)
        /\ Len(trend) = Cardinality(LatestMonths(DebitMonths, TrendMonths))
        /\ \A i \in 1..Len(trend) :
             trend[i].total =
               SumAmount({r \in transactions :
                            /\ IsDebit(r)
                            /\ ToLocaleMonth(r.transactionDate)
                                 = trend[i].month})
        /\ Len(recent) <= RecentLimit
        /\ \A i \in 1..Len(recent) : IsDebit(recent[i])
        /\ {recent[i].id : i \in 1..Len(recent)}
             = {r.id : r \in LatestDebits(RecentLimit)}
        /\ \A i, j \in 1..Len(recent) :
             i < j => DateRank(recent[i].transactionDate)
                        > DateRank(recent[j].transactionDate)

\* the stored debits of the last 30 days
RecentDebits ==
  {r \in transactions :
     IsDebit(r) /\ IsRecent(r, nudges.today, nudges.midnight)}

\* C25 - with stored amounts non-negative and the sign carried by type,
\* generateNudges takes the sum of the debit amounts of the last 30 days for
\* the spending, emits 'high-spending' whenever that sum / 30 exceeds 500
\* and emits 'top-category' whenever the debits of some category sum to
\* more than 1000.
C25_NudgesByDirection ==
  (/\ nudges.ran
   /\ nudges.ids # <<"error">>
   /\ \A r \in transactions : r.amount >= 0)
    => /\ nudges.totalSpending = SumAmount(RecentDebits)
       /\ SumAmount(RecentDebits) > HighSpending * 30
            => \E i \in 1..Len(nudges.ids) : nudges.ids[i] = "high-spending"
       /\ (\E c \in categories :
             SumAmount({r \in transactions :
                          IsDebit(r) /\ r.categoryId = c.id})
               > TopCategorySpending)
            => \E i \in 1..Len(nudges.ids) : nudges.ids[i] = "top-category"

\* C26 - referential integrity: in every state that sync upserts,
\* updateTransactionCategory, createCategory and deleteCategory reach,
\* interleaved at their await points, the categoryId of every transaction
\* is null or the id of a row of the categories table.
C26_ReferentialIntegrity ==
  \A r \in transactions :
    \/ r.categoryId = NullCategory
    \/ \E c \in categories : c.id = r.categoryId

\* C28 - a rejected request leaves the orchestrator as it is: a call made
\* while isSyncing is set returns "Sync already in progress", the flag stays
\* set and the run in flight stays where it is, so the next request meets
\* the same state and is rejected too; the flag is cleared only by the step
\* that ends the run in flight.
C28_RejectionKeepsRunning ==
  [][/\ \A c \in SyncCalls :
          (SyncTransactions(c) /\ isSyncing)
            => /\ returned'.kind = "returned"
               /\ returned'.outcome = Rejected
               /\ isSyncing'
               /\ calls' = calls
               /\ \E d \in SyncCalls \ {c} : Running(d)'
               /\ StoreUnchanged
     /\ (isSyncing /\ ~isSyncing')
          => \E d \in SyncCalls : Running(d) /\ ~Running(d)']_vars

\* a request was rejected while the run in flight had its rows inserted and
\* awaited the save of the sync time: the run is still Running
C28_Witness ==
  /\ returned.kind = "returned"
  /\ returned.outcome = Rejected
  /\ isSyncing
  /\ calls["home"].pc = "save"
  /\ calls["login"].pc = "idle"
  /\ transactions # {}

\* C29 - token and expiry consistency: however the two writes of
\* saveAccessToken interleave with the two reads of
\* secureStorage.getAccessToken, the token the cache returns has passed the
\* test now < expiry - 300 s on the expiry that was computed for it, and the
\* expiry entry it was judged by is its own.
C29_JudgedByOwnExpiry ==
  [][(/\ tokenCall.pc = "getExpiry"
      /\ tokenCall'.pc = "idle"
      /\ tokenResult'.kind = "token")
       => LET token == tokenResult'.token[1]
          IN  /\ token \in DOMAIN ownExpiry
              /\ clock < ownExpiry[token] - TokenBuffer
              /\ secure.expiry = Some(NumberToString(ownExpiry[token]))]_vars

\* the page requests of a getTransactions call are 1, 2, ... in this order
Consecutive(requests) == \A k \in 1..Len(requests) : requests[k] = k

\* C30 - sync liveness: when every external call eventually returns or
\* fails and the remote reports bounded totalPages, every sync that enters
\* Running eventually ends, so that again and again no call is running and
\* the orchestrator is Idle, and it ends returning an outcome; each page
\* request of getTransactions is for the page after the one before, a page
\* is requested only while it does not exceed the total learned last, and
\* the call returns with the first page index that exceeds it.
C30_SyncLiveness ==
  /\ []<>(~isSyncing /\ \A c \in SyncCalls : calls[c].pc = "idle")
  /\ [][\A c \in SyncCalls :
          (calls[c].pc # "idle" /\ calls'[c].pc = "idle")
            => (returned'.kind = "returned" /\ ~isSyncing')]_vars
  /\ [][(api.pc = "page" /\ api'.pc = "page" /\ api' # api)
          => /\ api'.currentPage = api.currentPage + 1
             /\ api'.requests = Append(api.requests, api.currentPage + 1)]_vars
  /\ [](api.pc = "page" =>
          /\ api.currentPage <= api.totalPages
          /\ Len(api.requests) = api.currentPage
          /\ Consecutive(api.requests))
  /\ [](\A e \in EndedCalls :
          e.requests # <<>> =>
            /\ Consecutive(e.requests)
            /\ Len(e.requests) <= MaxPages
            /\ IF e.result = Absent
               THEN /\ e.currentPage = Len(e.requests)
                    /\ e.currentPage <= e.totalPages
               ELSE /\ e.currentPage = Len(e.requests) + 1
                    /\ e.currentPage > e.totalPages)

\* a sync has gone from Running to Idle with a Succeeded outcome for the
\* two records its fetch returned, the fetch having requested a new access
\* token
C30_Witness ==
  /\ ~isSyncing
  /\ \A c \in SyncCalls : calls[c].pc = "idle"
  /\ returned.kind = "returned"
  /\ returned.outcome.success
  /\ returned.outcome.newTransactions = 2
  /\ lastSyncTime # NoTimestamp
  /\ api.pc = "idle"
  /\ issued = 2

====
